---- MODULE Spec2Model ----
(***************************************************************************)
(* A model of ustore.Async (paolodelfino/store), the asynchronous store    *)
(* layered over an IndexedDB object store: src/unnamed/part_008 lines      *)
(* 697-1377, with obj_merge from src/unnamed/part_006 lines 26-38.         *)
(*                                                                         *)
(* JavaScript values are tagged records of one shape, so that any two can  *)
(* be compared: t is the runtime type, s the text of a string, n the       *)
(* number, f the named properties (a function from property names) and e  *)
(* the elements of an array.  A missing property reads as Undefined.       *)
(***************************************************************************)
EXTENDS Integers, Sequences, FiniteSets, TLC

\* The clock (Date.now()) runs from 0 to MaxTime.
MaxTime == 2
\* The key generator of an auto-increment store is followed up to MaxGen.
MaxGen == 2

(***************************************************************************)
(* JavaScript values                                                       *)
(***************************************************************************)
NoProps == [x \in {} |-> 0]

Undefined == [t |-> "undefined", s |-> "", n |-> 0, f |-> NoProps, e |-> <<>>]
Str(text) == [t |-> "string", s |-> text, n |-> 0, f |-> NoProps, e |-> <<>>]
Num(i) == [t |-> "number", s |-> "", n |-> i, f |-> NoProps, e |-> <<>>]
Obj(props) == [t |-> "object", s |-> "", n |-> 0, f |-> props, e |-> <<>>]
Arr(items) == [t |-> "array", s |-> "", n |-> 0, f |-> NoProps, e |-> items]

\* typeof v == "object": plain objects and arrays (null is outside the
\* store's value types and is not modelled).
TypeofObject(v) == v.t \in {"object", "array"}

\* typeof v, as the error message of update prints it.
Typeof(v) == IF TypeofObject(v) THEN "object" ELSE v.t

\* a[key] for a value that is not undefined: the property, or undefined.
Prop(a, key) == IF key \in DOMAIN a.f THEN a.f[key] ELSE Undefined

\* The outcome of an expression that may throw.
Ok(v) == [thrown |-> FALSE, v |-> v]
Thrown == [thrown |-> TRUE, v |-> Undefined]

\* Object.assign in obj_merge's place: a nested object of the patch replaces
\* the old one whole.
obj_assign(a, b) ==
    Ok([a EXCEPT !.f = [key \in (DOMAIN a.f) \cup (DOMAIN b.f) |->
                          IF key \in DOMAIN b.f THEN b.f[key] ELSE a.f[key]]])

(***************************************************************************)
(* obj_merge(a, b): for every property of b, recurse when the property is  *)
(* an object, assign it to a otherwise; return a.  The recursion's result  *)
(* is dropped: it reaches a only because a[key] is changed in place, so    *)
(* nothing is added when a[key] is missing.  Reading a property of         *)
(* undefined throws, and so does assigning a property of undefined or of   *)
(* a primitive (the module is strict code).  The patch's properties are    *)
(* primitives or plain objects.                                            *)
(***************************************************************************)
RECURSIVE obj_merge(_, _)
obj_merge(a, b) ==
    LET keys == DOMAIN b.f
        sub(key) == obj_merge(Prop(a, key), b.f[key])
        throws(key) == IF TypeofObject(b.f[key])
                         THEN a.t = "undefined" \/ sub(key).thrown
                         ELSE ~TypeofObject(a)
        merged(key) == IF key \in keys
                         THEN IF TypeofObject(b.f[key])
                                THEN sub(key).v
                                ELSE b.f[key]
                         ELSE a.f[key]
        assigned == {key \in keys : ~TypeofObject(b.f[key])}
    IN  IF \E key \in keys : throws(key)
          THEN Thrown
          ELSE IF TypeofObject(a)
                 THEN Ok([a EXCEPT !.f =
                            [key \in (DOMAIN a.f) \cup assigned |-> merged(key)]])
                 ELSE Ok(a)

\* [...v]: the elements of an array, the characters of a string (the
\* strings of the model are at most one character long); anything else is
\* not iterable.
Spread(v) ==
    CASE v.t = "array" -> Ok(Arr(v.e))
      [] v.t = "string" -> Ok(Arr(IF v.s = "" THEN <<>> ELSE <<Str(v.s)>>))
      [] OTHER -> Thrown

\* The value that update stores: the conditional of lines 1156-1162.
MergeValue(old, value) ==
    IF value.t # "undefined"
      THEN IF TypeofObject(value)
             THEN IF value.t = "array"
                    THEN IF Spread(old).thrown
                           THEN Thrown
                           ELSE Ok(Arr(Spread(old).v.e \o value.e))
                    ELSE obj_merge(old, value)
             ELSE Ok(value)
      ELSE Ok(old)

(***************************************************************************)
(* Keys.  A key is a string or a number (type Key, line 1420).  IndexedDB  *)
(* orders numbers before strings, numbers by value and strings by their    *)
(* text; StringOrder lists the strings of the model in that order.         *)
(***************************************************************************)
StringOrder == <<"", "a", "b">>

StrRank(text) == CHOOSE i \in 1..Len(StringOrder) : StringOrder[i] = text

KeyLess(k1, k2) ==
    \/ k1.t = "number" /\ k2.t = "string"
    \/ k1.t = "number" /\ k2.t = "number" /\ k1.n < k2.n
    \/ k1.t = "string" /\ k2.t = "string" /\ StrRank(k1.s) < StrRank(k2.s)

\* A value IndexedDB accepts as a key (of the values modelled).
ValidKey(v) == v.t \in {"number", "string"}

\* !!v for a key: 0 and the empty string are falsy.
Truthy(v) ==
    CASE v.t = "undefined" -> FALSE
      [] v.t = "number" -> v.n # 0
      [] v.t = "string" -> v.s # ""
      [] OTHER -> TRUE

\* `${key}`
KeyText(key) == IF key.t = "number" THEN ToString(key.n) ELSE key.s

(***************************************************************************)
(* Rows.  A stored row is the object handed to put or cursor.update; a     *)
(* property the object does not have reads as Undefined.                   *)
(***************************************************************************)
Entry(value, options, timestamp) ==
    [value |-> value, options |-> options, timestamp |-> timestamp]

\* The key of a row in the index byExpiry (key path options.expiry):
\* rows without a numeric expiry are not in the index.
HasExpiry(row) ==
    /\ TypeofObject(row.options)
    /\ Prop(row.options, "expiry").t = "number"

Expiry(row) == Prop(row.options, "expiry").n

\* The key of a row in the index byTimestamp (key path timestamp).
HasTimestamp(row) == row.timestamp.t = "number"

VARIABLES
    now,              \* Date.now()
    store,            \* the object store's key policy (createObjectStore)
    indexes,          \* the indexes of the object store
    generator,        \* the object store's key generator
    table,            \* the object store: key -> row
    consume_default,  \* this._consume_default
    middlewares,      \* the hooks installed in this._middlewares
    last,             \* the call that has just returned, with its result
    posts,            \* what the last operation posted on the channel
    written,          \* key -> the set() that wrote its row, if untouched since
    environment,      \* whose BroadcastChannel the global one is
    last_modified,    \* handle -> its last_modified
    inflight,         \* handle -> the messages on their way to its listener
    version,          \* the version of the database, 0 while there is none
    handle,           \* the handle `store`: how far its init has come
    released,         \* handle -> "close" or "delete", the call that released it
    hook,             \* the get middleware that init was given, "" for none
    calls             \* the calls of get and update that have not returned

\* What init fixes, until the next init, and what the calls that return at
\* once leave alone.
static == <<store, indexes, consume_default, middlewares, environment, version,
            handle, released, hook, calls>>

vars == <<now, static, generator, table, last, posts, written, last_modified, inflight>>

(***************************************************************************)
(* _rm_expired (lines 1353-1376): delete every row of byExpiry whose key   *)
(* is <= Date.now() (IDBKeyRange.upperBound is inclusive); post a message  *)
(* when the cursor found a row.                                            *)
(***************************************************************************)
\* A sweep up to, and not at, the time given.
ExpiredBefore(tbl, t) == {k \in DOMAIN tbl : HasExpiry(tbl[k]) /\ Expiry(tbl[k]) < t}

Expired(tbl, t) == {k \in DOMAIN tbl : HasExpiry(tbl[k]) /\ Expiry(tbl[k]) <= t}

rm_expired(tbl, t) == [k \in (DOMAIN tbl) \ Expired(tbl, t) |-> tbl[k]]

Message(by) == [by |-> by, data |-> now]

SweepPosts(tbl, t) == IF Expired(tbl, t) # {} THEN <<Message("_rm_expired")>> ELSE <<>>

\* _table (lines 1343-1351): the sweep, then the object store.
Table == rm_expired(table, now)

(***************************************************************************)
(* The channel (lines 739-742).  Every handle makes a BroadcastChannel of  *)
(* its own, named after the identifier, and its listener stores what       *)
(* arrives in last_modified.  The class is the environment's.  The         *)
(* platform's delivers a message to the other channel objects of the name, *)
(* never to the one that posted it, each in a task of its own later on.    *)
(* The one test/index.ts installs (lines 14-32) calls every listener ever  *)
(* added, the poster's among them, before postMessage returns.             *)
(* The handles are `store` and `parallel_store`, as in the test of        *)
(* last_modified; a call is made on any of the handles that are open.      *)
(***************************************************************************)
Environments == {"platform", "test"}

Performer == "store"

Handles == {Performer, "parallel_store"}

\* The handles after init: nothing heard yet (line 708).
Opened(env, handles) ==
    /\ environment = env
    /\ last_modified = [h \in handles |-> -1]
    /\ inflight = [h \in handles |-> <<>>]
    /\ released = <<>>

\* A queue that hands the newest message out first.
EnqueueFirst(queue, data) == data \o queue

RECURSIVE Enqueue(_, _)
\* The messages behind those already on their way.  A message equal to the
\* one before it leaves last_modified as that one left it, and the queue
\* keeps one of the two.
Enqueue(queue, data) ==
    IF data = <<>>
      THEN queue
      ELSE Enqueue(IF queue # <<>> /\ queue[Len(queue)] = Head(data)
                     THEN queue
                     ELSE Append(queue, Head(data)),
                   Tail(data))

\* A channel that hands every message to every listener at once, the
\* poster's included.
postMessageToAll(data) ==
    /\ last_modified' = [h \in DOMAIN last_modified |->
                            IF data = <<>> \/ h \notin DOMAIN inflight
                              THEN last_modified[h]
                              ELSE data[Len(data)]]
    /\ inflight' = inflight

\* The platform's postMessage, called on the channel object of handle `by`.
postMessage(by, data) ==
    /\ last_modified' = last_modified
    /\ inflight' = [h \in DOMAIN inflight |->
                       IF h = by THEN inflight[h]
                                 ELSE Enqueue(inflight[h], data)]

\* What an operation posts, one message after the other, on the channel of
\* the handle it was called on.
Post(msgs) ==
    /\ posts' = msgs
    /\ IF environment = "test"
         THEN postMessageToAll([i \in DOMAIN msgs |-> msgs[i].data])
         ELSE \E by \in (DOMAIN last_modified) \ DOMAIN released :
                  postMessage(by, [i \in DOMAIN msgs |-> msgs[i].data])

(***************************************************************************)
(* The handle `store` and its database.  `state` is "new" for an object    *)
(* no init has touched, "migrating" while init awaits the promise of       *)
(* migrate, "ready" once init has resolved (this._db = db, line 799),      *)
(* "failed" when init has rejected, "closed" after close.  `found` is the  *)
(* version openDB found, `old_version` what migrate was called with, once  *)
(* for each call, and `migrate` the callback whose promise is pending.     *)
(* `leaked` says that an init has rejected after openDB had resolved: the  *)
(* connection it opened is in no field of the handle and nothing closes    *)
(* it, so an open that asks for a higher version stays blocked ("blocked").*)
(* `db` is what this._db holds: "none" before any init, "temp" the stand-in*)
(* of lines 745-752 around the object store of the upgrade transaction,    *)
(* "db" the database openDB returned, "closed" that database once closed.  *)
(***************************************************************************)
Handle(state, identifier, found, old_version, migrate) ==
    [state |-> state, identifier |-> identifier, found |-> found,
     old_version |-> old_version, migrate |-> migrate, leaked |-> FALSE,
     db |-> "none"]

\* `released` after close() or delete() on the handle h, and after an
\* init on it.
Released(h, by) ==
    [k \in (DOMAIN released) \cup {h} |-> IF k = h THEN by ELSE released[k]]
Reopened(h) == [k \in (DOMAIN released) \ {h} |-> released[k]]

\* An init that leaves this._db the stand-in.
ResolveNever(h) == [h EXCEPT !.state = "ready", !.migrate = ""]

\* `await migrating; this._db = db;` (lines 798-799), once migrating has
\* resolved or when there was nothing to await.
Resolve(h) == [h EXCEPT !.state = "ready", !.migrate = "", !.db = "db"]

\* After an init that created the database at version 1, on a handle
\* without a get middleware; no call is under way.
Ready ==
    /\ version = 1
    /\ handle = Resolve(Handle("ready", "store", 0, <<>>, ""))
    /\ hook = ""
    /\ calls = <<>>

(***************************************************************************)
(* What an operation leaves in `last` and `posts`.                         *)
(***************************************************************************)
Bool(b) == [t |-> "boolean", s |-> "", n |-> IF b THEN 1 ELSE 0,
            f |-> NoProps, e |-> <<>>]

NoError == <<>>

\* Errors of the storage engine and of the language, by name.
DataError == <<"DataError">>
ConstraintError == <<"ConstraintError">>
NotFoundError == <<"NotFoundError">>
TypeError == <<"TypeError">>

\* `cannot update non-existing entry: (${typeof key}) "${key}"` (line 1141)
\* The error without the key's type.
NoSuchEntryUntyped(key) ==
    <<"cannot update non-existing entry: \"", KeyText(key), "\"">>

NoSuchEntry(key) ==
    <<"cannot update non-existing entry: (", Typeof(key), ") \"", KeyText(key), "\"">>

\* What a call returned, or the error it failed with.
Call(op, args, ret, error) ==
    [op |-> op, args |-> args, ret |-> ret, error |-> error]

\* A key's entry in `written` is dropped by whatever writes or deletes the
\* key's row, other than the sweep.
Touch(keys) == [k \in (DOMAIN written) \ keys |-> written[k]]

(***************************************************************************)
(* Indexes (lines 767-783): byExpiry on options.expiry, byTimestamp on     *)
(* timestamp, and the caller's on value.<path>.  A key path is the         *)
(* sequence of its property names.  A row is in an index once for every    *)
(* valid key its key path gives: none when the property is missing or no   *)
(* key, one for each element when the index is multiEntry and the          *)
(* property an array.                                                      *)
(***************************************************************************)
IndexDef(name, path, unique, multi_entry) ==
    [name |-> name, path |-> path, unique |-> unique, multi_entry |-> multi_entry]

\* createIndex(name, `value.${path}`, {unique, multiEntry: multi_entry})
CallerIndex(name, path, unique, multi_entry) ==
    IndexDef(name, <<"value">> \o path, unique, multi_entry)

BuiltInIndexes ==
    {IndexDef("byExpiry", <<"options", "expiry">>, FALSE, FALSE),
     IndexDef("byTimestamp", <<"timestamp">>, FALSE, FALSE)}

RECURSIVE PathValue(_, _)
PathValue(v, path) ==
    IF path = <<>> THEN v ELSE PathValue(Prop(v, Head(path)), Tail(path))

IndexKeys(row, idx) ==
    LET v == PathValue(Obj(row), idx.path)
    IN  IF idx.multi_entry /\ v.t = "array"
          THEN {v.e[i] : i \in {j \in 1..Len(v.e) : ValidKey(v.e[j])}}
          ELSE IF ValidKey(v) THEN {v} ELSE {}

\* A unique index refuses a row whose key another row already has.
Conflicts(tbl, row, key) ==
    \E idx \in indexes, k \in (DOMAIN tbl) \ {key} :
        idx.unique /\ IndexKeys(row, idx) \cap IndexKeys(tbl[k], idx) # {}

(***************************************************************************)
(* IDBObjectStore.put(row, key) under the store's key policy, as init      *)
(* creates it (lines 757-762): autoIncrement, and the key path             *)
(* value.<keypath>, which the model fixes to value.id.                     *)
(***************************************************************************)
KeyPathProp == "id"

InlineKey(row) == Prop(row.value, KeyPathProp)

PutResult(error, key, tbl, gen) ==
    [thrown |-> error # NoError, error |-> error, key |-> key, tbl |-> tbl,
     gen |-> gen]

PutAt(tbl, gen, row, key) ==
    IF Conflicts(tbl, row, key)
      THEN PutResult(ConstraintError, Undefined, tbl, gen)
      ELSE PutResult(NoError, key,
                     [k \in (DOMAIN tbl) \cup {key} |->
                         IF k = key THEN row ELSE tbl[k]],
                     IF store.autoIncrement /\ key.t = "number" /\ key.n >= gen
                       THEN key.n + 1 ELSE gen)

PutFails(tbl, gen) == PutResult(DataError, Undefined, tbl, gen)

\* A store that hands out a key and leaves it out of the stored value.
InjectNothing(row, key) == row

\* The stored clone of the row gets the generated key at the key path.
Inject(row, key) ==
    [row EXCEPT !.value.f =
        [p \in (DOMAIN row.value.f) \cup {KeyPathProp} |->
            IF p = KeyPathProp THEN key ELSE row.value.f[p]]]

put(tbl, gen, row, key) ==
    IF store.keyPath
      THEN IF key.t # "undefined"
             THEN PutFails(tbl, gen)
             ELSE IF ValidKey(InlineKey(row))
                    THEN PutAt(tbl, gen, row, InlineKey(row))
                    ELSE IF /\ InlineKey(row).t = "undefined"
                            /\ store.autoIncrement
                            /\ TypeofObject(row.value)
                           THEN PutAt(tbl, gen, Inject(row, Num(gen)), Num(gen))
                           ELSE PutFails(tbl, gen)
      ELSE IF key.t # "undefined"
             THEN PutAt(tbl, gen, row, key)
             ELSE IF store.autoIncrement
                    THEN PutAt(tbl, gen, row, Num(gen))
                    ELSE PutFails(tbl, gen)

\* IDBCursor.update(row) at `key`: a store with in-line keys refuses a row
\* whose key path does not give the cursor's key.
CursorUpdateFails(row, key) == store.keyPath /\ InlineKey(row) # key

CursorUpdateError(tbl, row, key) ==
    IF CursorUpdateFails(row, key)
      THEN DataError
      ELSE IF Conflicts(tbl, row, key) THEN ConstraintError ELSE NoError

(***************************************************************************)
(* set (lines 1223-1242)                                                   *)
(***************************************************************************)
Set(value, key, options) ==
    LET tbl == Table
        res == put(tbl, generator, Entry(value, options, Num(now)), key)
    IN  /\ res.gen <= MaxGen + 1
        /\ IF res.thrown
             THEN /\ table' = tbl
                  /\ Post(SweepPosts(table, now))
                  /\ last' = Call("set", <<value, key, options>>, Undefined, res.error)
                  /\ UNCHANGED <<generator, written>>
             ELSE /\ table' = res.tbl
                  /\ generator' = res.gen
                  /\ Post(SweepPosts(table, now) \o <<Message("set")>>)
                  /\ last' = Call("set", <<value, key, options>>, res.key, NoError)
                  /\ written' =
                        [k \in (DOMAIN written) \cup {res.key} |->
                            IF k = res.key
                              THEN [at |-> now, options |-> options]
                              ELSE written[k]]
        /\ UNCHANGED <<now, static>>

(***************************************************************************)
(* update (lines 1126-1166).  data is the literal {value, options}, or     *)
(* what the updater function returned for the row's entry.                 *)
(***************************************************************************)
Update(key, data) ==
    LET tbl == Table
        options == obj_merge(tbl[key].options, data.options)
        value == MergeValue(tbl[key].value, data.value)
        row == Entry(value.v, options.v, Undefined)
        call(error) == Call("update", <<key, data.value, data.options>>, Undefined, error)
    IN  /\ IF key \notin DOMAIN tbl
             THEN /\ table' = tbl
                  /\ Post(SweepPosts(table, now))
                  /\ last' = call(NoSuchEntry(key))
                  /\ UNCHANGED written
             ELSE IF options.thrown \/ value.thrown
                    THEN /\ table' = tbl
                         /\ Post(SweepPosts(table, now))
                         /\ last' = call(TypeError)
                         /\ UNCHANGED written
                    ELSE IF CursorUpdateError(tbl, row, key) # NoError
                           THEN /\ table' = tbl
                                /\ Post(SweepPosts(table, now))
                                /\ last' = call(CursorUpdateError(tbl, row, key))
                                /\ UNCHANGED written
                           ELSE /\ table' = [tbl EXCEPT ![key] = row]
                                /\ Post(SweepPosts(table, now)
                                              \o <<Message("update")>>)
                                /\ last' = call(NoError)
                                /\ written' = Touch({key})
        /\ UNCHANGED <<now, static, generator>>

(***************************************************************************)
(* consume (lines 1196-1213)                                               *)
(***************************************************************************)
Consume(key) ==
    LET tbl == Table
        row == Entry(consume_default, Undefined, Undefined)
        call(ret, error) == Call("consume", <<key>>, ret, error)
    IN  /\ IF key \notin DOMAIN tbl
             THEN /\ table' = tbl
                  /\ Post(SweepPosts(table, now))
                  /\ last' = call(Undefined, NoError)
                  /\ UNCHANGED written
             ELSE IF consume_default.t # "undefined"
                    THEN IF CursorUpdateError(tbl, row, key) # NoError
                           THEN /\ table' = tbl
                                /\ Post(SweepPosts(table, now))
                                /\ last' = call(Undefined,
                                                CursorUpdateError(tbl, row, key))
                                /\ UNCHANGED written
                           ELSE /\ table' = [tbl EXCEPT ![key] = row]
                                /\ Post(SweepPosts(table, now)
                                              \o <<Message("consume")>>)
                                /\ last' = call(tbl[key].value, NoError)
                                /\ written' = Touch({key})
                    ELSE /\ table' = [k \in (DOMAIN tbl) \ {key} |-> tbl[k]]
                         /\ Post(SweepPosts(table, now) \o <<Message("consume")>>)
                         /\ last' = call(tbl[key].value, NoError)
                         /\ written' = Touch({key})
        /\ UNCHANGED <<now, static, generator>>

\* An rm that leaves the row where it is.
RmKeeps(key) ==
    /\ table' = Table
    /\ Post(SweepPosts(table, now))
    /\ last' = Call("rm", <<key>>, Undefined, NoError)
    /\ UNCHANGED <<now, static, generator, written>>

(***************************************************************************)
(* rm (lines 1269-1276)                                                    *)
(***************************************************************************)
Rm(key) ==
    LET tbl == Table
    IN  /\ IF key \in DOMAIN tbl
             THEN /\ table' = [k \in (DOMAIN tbl) \ {key} |-> tbl[k]]
                  /\ Post(SweepPosts(table, now) \o <<Message("rm")>>)
                  /\ written' = Touch({key})
             ELSE /\ table' = tbl
                  /\ Post(SweepPosts(table, now))
                  /\ UNCHANGED written
        /\ last' = Call("rm", <<key>>, Undefined, NoError)
        /\ UNCHANGED <<now, static, generator>>

\* A clear that posts whether or not the store had rows.
ClearPosts ==
    LET tbl == Table
    IN  /\ table' = [k \in {} |-> tbl[k]]
        /\ Post(SweepPosts(table, now) \o <<Message("clear")>>)
        /\ written' = Touch(DOMAIN tbl)
        /\ last' = Call("clear", <<>>, Undefined, NoError)
        /\ UNCHANGED <<now, static, generator>>

\* A clear that deletes one row only.
ClearOne ==
    LET tbl == Table
        gone == CHOOSE k \in DOMAIN tbl : TRUE
    IN  /\ IF Cardinality(DOMAIN tbl) > 0
             THEN /\ table' = [k \in (DOMAIN tbl) \ {gone} |-> tbl[k]]
                  /\ Post(SweepPosts(table, now) \o <<Message("clear")>>)
                  /\ written' = Touch({gone})
             ELSE /\ table' = tbl
                  /\ Post(SweepPosts(table, now))
                  /\ UNCHANGED written
        /\ last' = Call("clear", <<>>, Undefined, NoError)
        /\ UNCHANGED <<now, static, generator>>

(***************************************************************************)
(* clear (lines 1278-1285)                                                 *)
(***************************************************************************)
Clear ==
    LET tbl == Table
    IN  /\ IF Cardinality(DOMAIN tbl) > 0
             THEN /\ table' = [k \in {} |-> tbl[k]]
                  /\ Post(SweepPosts(table, now) \o <<Message("clear")>>)
                  /\ written' = Touch(DOMAIN tbl)
             ELSE /\ table' = tbl
                  /\ Post(SweepPosts(table, now))
                  /\ UNCHANGED written
        /\ last' = Call("clear", <<>>, Undefined, NoError)
        /\ UNCHANGED <<now, static, generator>>

(***************************************************************************)
(* export (lines 1292-1304) and import (lines 1306-1319).  The Map that    *)
(* export returns is the array of its {key, entry} pairs in the order of   *)
(* the cursor, which is the order of the keys.  import posts nothing.      *)
(***************************************************************************)
RECURSIVE Sorted(_, _)
\* The keys of `keys` as a sequence, least first; `before` is a strict total
\* order on them, as a set of pairs.
Sorted(keys, before) ==
    IF keys = {}
      THEN <<>>
      ELSE LET first == CHOOSE k \in keys : \A j \in keys \ {k} : <<k, j>> \in before
           IN  <<first>> \o Sorted(keys \ {first}, before)

KeyOrder(keys) == {p \in keys \X keys : KeyLess(p[1], p[2])}

Reverse(seq) == [i \in 1..Len(seq) |-> seq[Len(seq) + 1 - i]]

MapEntry(key, row) == Obj([key |-> key, entry |-> Obj(row)])

export(tbl) ==
    LET keys == Sorted(DOMAIN tbl, KeyOrder(DOMAIN tbl))
    IN  Arr([i \in 1..Len(keys) |-> MapEntry(keys[i], tbl[keys[i]])])

Export ==
    /\ table' = Table
    /\ Post(SweepPosts(table, now))
    /\ last' = Call("export", <<>>, export(Table), NoError)
    /\ UNCHANGED <<now, static, generator, written>>

RECURSIVE ImportLoop(_, _, _)
\* for (const [key, value] of set) await table.put(value, key)
ImportLoop(res, set, i) ==
    IF i > Len(set.e) \/ res.thrown
      THEN res
      ELSE ImportLoop(put(res.tbl, res.gen, set.e[i].f.entry.f, set.e[i].f.key),
                      set, i + 1)

Import(set, merge) ==
    LET tbl == Table
        cleared == IF merge THEN tbl ELSE [k \in {} |-> tbl[k]]
        res == ImportLoop(PutResult(NoError, Undefined, cleared, generator), set, 1)
        put_keys == {set.e[i].f.key : i \in 1..Len(set.e)}
        \* A put that throws for its key leaves the transaction to commit what
        \* was done; one that a unique index refuses aborts it.
        aborted == res.error = ConstraintError
    IN  /\ res.gen <= MaxGen + 1
        /\ table' = IF aborted THEN tbl ELSE res.tbl
        /\ generator' = IF aborted THEN generator ELSE res.gen
        /\ Post(SweepPosts(table, now))
        /\ last' = Call("import", <<set, Bool(merge)>>, Undefined, res.error)
        /\ written' = IF aborted
                        THEN written
                        ELSE Touch(IF merge THEN put_keys
                                            ELSE put_keys \cup DOMAIN tbl)
        /\ UNCHANGED <<now, static>>

(***************************************************************************)
(* Reads.  Each takes the table that _table() returns, after the sweep.    *)
(***************************************************************************)
\* has (lines 1215-1217): !!(await table.getKey(key))
has(tbl, key) == Truthy(IF key \in DOMAIN tbl THEN key ELSE Undefined)

\* The get middleware of the model (as in test/index.ts lines 500-505): it
\* reads the key it is given and sends the lookup to one fixed key.
MiddlewareKey == Str("a")

middleware_get(tbl, key) == MiddlewareKey

\* get (lines 1181-1194): the hook, removed while it runs and installed
\* again, rewrites the key; then (await table.get(key))?.value
get(tbl, key) ==
    LET key2 == IF "get" \in middlewares THEN middleware_get(tbl, key) ELSE key
    IN  IF key2 \in DOMAIN tbl THEN tbl[key2].value ELSE Undefined

RECURSIVE get_some(_, _)
\* get_some (lines 1168-1179): the truthy results of get, in the keys' order.
get_some(tbl, keys) ==
    IF keys = <<>>
      THEN <<>>
      ELSE (IF Truthy(get(tbl, Head(keys))) THEN <<get(tbl, Head(keys))>> ELSE <<>>)
             \o get_some(tbl, Tail(keys))

\* length (lines 1321-1323)
length(tbl) == Cardinality(DOMAIN tbl)

\* The index byTimestamp: the rows that have a timestamp, by timestamp and
\* then by key; a cursor of direction "prev" walks it backwards.
\* The order of the store, not of the index.
PrimaryKeyBefore(tbl, k1, k2) == KeyLess(k1, k2)

TimestampBefore(tbl, k1, k2) ==
    \/ tbl[k1].timestamp.n < tbl[k2].timestamp.n
    \/ tbl[k1].timestamp.n = tbl[k2].timestamp.n /\ KeyLess(k1, k2)

byTimestamp(tbl, reverse) ==
    LET indexed == {k \in DOMAIN tbl : HasTimestamp(tbl[k])}
        keys == Sorted(indexed, {p \in indexed \X indexed :
                                    TimestampBefore(tbl, p[1], p[2])})
    IN  IF reverse THEN Reverse(keys) ELSE keys

Pair(tbl, key) == Obj([key |-> key, value |-> tbl[key].value])

\* values (lines 1325-1341)
values(tbl, reverse) ==
    LET keys == byTimestamp(tbl, reverse)
    IN  [i \in 1..Len(keys) |-> Pair(tbl, keys[i])]

\* this.page_sz (line 707)
page_sz == 10

RECURSIVE PageLoop(_, _, _, _, _, _)
\* while (i < page_sz && cursor) { results.push(..); ++i; cursor.continue() }
\* A cursor is a position in the walk of the index, 0 when it is null.
PageLoop(tbl, keys, cursor, i, sz, results) ==
    IF i < sz /\ cursor # 0
      THEN PageLoop(tbl, keys, IF cursor < Len(keys) THEN cursor + 1 ELSE 0,
                    i + 1, sz, Append(results, Pair(tbl, keys[cursor])))
      ELSE [results |-> results, has_next |-> cursor # 0]

\* A page that is the whole walk.
pageWhole(tbl, number, options) ==
    [results |-> values(tbl, Prop(options, "reverse") = Bool(TRUE)),
     has_next |-> FALSE]

\* page (lines 805-845)
page(tbl, number, options) ==
    LET keys == byTimestamp(tbl, Prop(options, "reverse") = Bool(TRUE))
        opened == IF Len(keys) > 0 THEN 1 ELSE 0
        sz == IF Prop(options, "sz").t = "undefined"
                THEN page_sz ELSE Prop(options, "sz").n
        offset == IF Prop(options, "offset").t = "undefined"
                    THEN 0 ELSE Prop(options, "offset").n
        skip == (number - 1) * sz + offset
        cursor == IF skip > 0
                    THEN IF opened # 0 /\ opened + skip <= Len(keys)
                           THEN opened + skip ELSE 0
                    ELSE opened
    IN  PageLoop(tbl, keys, cursor, 0, sz, <<>>)

(***************************************************************************)
(* index (lines 1006-1109)                                                 *)
(***************************************************************************)
IndexRecords(tbl, idx) ==
    UNION {{[key |-> ik, primaryKey |-> k] : ik \in IndexKeys(tbl[k], idx)} :
              k \in DOMAIN tbl}

\* The order of an index's cursor: by key, then by primary key.
RecordLess(r1, r2) ==
    \/ KeyLess(r1.key, r2.key)
    \/ r1.key = r2.key /\ KeyLess(r1.primaryKey, r2.primaryKey)

KeyRange(lower, upper, lowerOpen, upperOpen) ==
    [lower |-> lower, upper |-> upper, lowerOpen |-> lowerOpen,
     upperOpen |-> upperOpen]

\* A range that takes both of its bounds in, open or not.
InRangeClosed(key, range) ==
    /\ range.lower.t = "undefined" \/ ~ KeyLess(key, range.lower)
    /\ range.upper.t = "undefined" \/ ~ KeyLess(range.upper, key)

InRange(key, range) ==
    /\ \/ range.lower.t = "undefined"
       \/ KeyLess(range.lower, key)
       \/ ~ range.lowerOpen /\ key = range.lower
    /\ \/ range.upper.t = "undefined"
       \/ KeyLess(key, range.upper)
       \/ ~ range.upperOpen /\ key = range.upper

Falsy(v) ==
    \/ v.t = "undefined"
    \/ v.t = "boolean" /\ v.n = 0
    \/ v.t = "number" /\ v.n = 0
    \/ v.t = "string" /\ v.s = ""

\* The switch on options.mode (lines 1040-1062): the range as <<range>>,
\* or <<>> where IDBKeyRange throws, for a bound that is no key or for an
\* empty range.  Without a mode the range has no bounds.
Query(options) ==
    LET opt(p) == Prop(options, p)
        mode == opt("mode")
        lower == opt("lower_value")
        upper == opt("upper_value")
        lowerOpen == Falsy(opt("lower_inclusive"))
        upperOpen == Falsy(opt("upper_inclusive"))
        checked(ok, range) == IF ok THEN <<range>> ELSE <<>>
    IN  CASE mode = Str("only") ->
                checked(ValidKey(opt("value")),
                        KeyRange(opt("value"), opt("value"), FALSE, FALSE))
          [] mode = Str("above") ->
                checked(ValidKey(opt("value")),
                        KeyRange(opt("value"), Undefined,
                                 Falsy(opt("inclusive")), TRUE))
          [] mode = Str("below") ->
                checked(ValidKey(opt("value")),
                        KeyRange(Undefined, opt("value"), TRUE,
                                 Falsy(opt("inclusive"))))
          [] mode = Str("range") ->
                checked(/\ ValidKey(lower)
                        /\ ValidKey(upper)
                        /\ ~ KeyLess(upper, lower)
                        /\ lower = upper => ~ (lowerOpen \/ upperOpen),
                        KeyRange(lower, upper, lowerOpen, upperOpen))
          [] OTHER -> <<KeyRange(Undefined, Undefined, TRUE, TRUE)>>

\* The records as the cursor walks them: by index key, then by primary key.
SortedByIndexKey(tbl, records, reverse) ==
    LET walk == Sorted(records, {p \in records \X records : RecordLess(p[1], p[2])})
    IN  {IF reverse THEN Reverse(walk) ELSE walk}

\* The orders values.sort can leave the walked rows in.  Array.prototype.sort
\* is stable: rows of equal timestamp stay in the cursor's order.  A row
\* without a timestamp makes the comparator answer NaN, and the order is
\* then the engine's own: any order.
SortedByTimestamp(tbl, records, reverse) ==
    LET ts(r) == tbl[r.primaryKey].timestamp
        first(r1, r2) == IF reverse THEN ts(r1).n > ts(r2).n ELSE ts(r1).n < ts(r2).n
    IN  IF \A r \in records : ts(r).t = "number"
          THEN {Sorted(records,
                       {p \in records \X records :
                           \/ first(p[1], p[2])
                           \/ ts(p[1]).n = ts(p[2]).n /\ RecordLess(p[1], p[2])})}
          ELSE {s \in [1..Cardinality(records) -> records] :
                   \A i, j \in DOMAIN s : i # j => s[i] # s[j]}

\* An index that answers a page request with every row.
IndexResultWhole(tbl, sorted, options) ==
    LET rows == Arr([i \in 1..Len(sorted) |-> Pair(tbl, sorted[i].primaryKey)])
    IN  IF Falsy(Prop(options, "page"))
          THEN rows
          ELSE Obj([results |-> rows, has_next |-> Bool(FALSE)])

\* The page of the sorted rows (lines 1087-1108), or all of them.
IndexResult(tbl, sorted, options) ==
    LET pair(i) == Pair(tbl, sorted[i].primaryKey)
        page_no == Prop(options, "page")
        sz == IF Falsy(Prop(options, "page_sz"))
                THEN page_sz ELSE Prop(options, "page_sz").n
        offset == IF Prop(options, "offset").t = "undefined"
                    THEN 0 ELSE Prop(options, "offset").n
        end == page_no.n * sz + offset
        start == (page_no.n - 1) * sz + offset
        shown == {i \in 0..(Len(sorted) - 1) : start <= i /\ i < end}
    IN  IF Falsy(page_no)
          THEN Arr([i \in 1..Len(sorted) |-> pair(i)])
          ELSE Obj([results |-> Arr([i \in 1..Cardinality(shown) |-> pair(start + i)]),
                    has_next |-> Bool(0 <= end /\ end < Len(sorted))])

\* Every outcome index can have on the swept table.
index(tbl, name, options) ==
    LET named == {idx \in indexes : idx.name = name}
        idx == CHOOSE idx \in named : TRUE
        query == Query(options)
        records == {r \in IndexRecords(tbl, idx) : InRange(r.key, query[1])}
    IN  IF named = {}
          THEN {[error |-> NotFoundError, v |-> Undefined]}
          ELSE IF query = <<>>
                 THEN {[error |-> DataError, v |-> Undefined]}
                 ELSE {[error |-> NoError, v |-> IndexResult(tbl, sorted, options)] :
                          sorted \in SortedByTimestamp(
                              tbl, records, ~ Falsy(Prop(options, "reverse")))}

Read(op, args, ret) ==
    /\ table' = Table
    /\ Post(SweepPosts(table, now))
    /\ last' = Call(op, args, ret, NoError)
    /\ UNCHANGED <<now, static, generator, written>>

Has(key) == Read("has", <<key>>, Bool(has(Table, key)))

Get(key) == Read("get", <<key>>, get(Table, key))

GetSome(keys) == Read("get_some", <<Arr(keys)>>, Arr(get_some(Table, keys)))

Length == Read("length", <<>>, Num(length(Table)))

Values(reverse) ==
    Read("values", <<Bool(reverse)>>, Arr(values(Table, reverse)))

Index(name, options) ==
    \E out \in index(Table, name, options) :
        /\ table' = Table
        /\ Post(SweepPosts(table, now))
        /\ last' = Call("index", <<Str(name), options>>, out.v, out.error)
        /\ UNCHANGED <<now, static, generator, written>>

Page(number, options) ==
    LET res == page(Table, number, options)
    IN  Read("page", <<Num(number), options>>, Obj([results |-> Arr(res.results),
                          has_next |-> Bool(res.has_next)]))

\* Time passes.
Tick ==
    /\ now < MaxTime
    /\ now' = now + 1
    /\ last' = Call("tick", <<>>, Undefined, NoError)
    /\ Post(<<>>)
    /\ UNCHANGED <<static, generator, table, written>>

\* The task the platform queued for a message: the handle's listener runs
\* (line 741) with the oldest message on its way.
Deliver(h) ==
    /\ h \in DOMAIN inflight
    /\ inflight[h] # <<>>
    /\ last_modified' = [last_modified EXCEPT ![h] = Head(inflight[h])]
    /\ inflight' = [inflight EXCEPT ![h] = Tail(inflight[h])]
    /\ last' = Call("message", <<Str(h)>>, Undefined, NoError)
    /\ posts' = <<>>
    /\ UNCHANGED <<now, static, generator, table, written>>

(***************************************************************************)
(* get, step by step (lines 1181-1194), on a handle with a get middleware. *)
(* `hook` is the middleware that init was given: "redirect" is the one of  *)
(* test/index.ts lines 500-505 (await store.get(key); return "enola"),     *)
(* "dirty" the one of lines 521-533 (entry = await store.get(key); assert  *)
(* that it is defined; await store.update(key, {value: {slug: ..}});       *)
(* return key).  A call of `calls` is at "middleware" while the get that   *)
(* the middleware made is under way, at "update" while its update is, and  *)
(* at "read" while the table read of the top-level get is.                 *)
(***************************************************************************)
Hooks == {"redirect", "dirty"}

\* What assert.isDefined throws.
AssertionError == <<"AssertionError">>

\* The patch of the middleware "dirty".
DirtyPatch == Obj([slug |-> Str("dirty")])

\* What update (lines 1138-1166) writes for the row of key, or the error
\* it fails with.
UpdateRow(tbl, key, data) ==
    LET options == obj_merge(tbl[key].options, data.options)
        value == MergeValue(tbl[key].value, data.value)
        row == Entry(value.v, options.v, Undefined)
    IN  IF key \notin DOMAIN tbl
          THEN [error |-> NoSuchEntry(key), row |-> Undefined]
          ELSE IF options.thrown \/ value.thrown
                 THEN [error |-> TypeError, row |-> Undefined]
                 ELSE [error |-> CursorUpdateError(tbl, row, key), row |-> row]

Started(c, call) == [k \in (DOMAIN calls) \cup {c} |-> IF k = c THEN call ELSE calls[k]]
Returned(c) == [k \in (DOMAIN calls) \ {c} |-> calls[k]]

\* A hook that get leaves installed while the middleware runs.
Unhooked(installed) == installed

\* delete this._middlewares["get"] (line 1184)
Removed(installed) == installed \ {"get"}

\* this._middlewares.get = middleware_get (line 1188)
Installed(installed) == installed \cup {"get"}

\* get(key) is called: with the hook installed, the hook is removed and
\* the middleware is called, which calls store.get(key); without it, the
\* table read starts with the key as it is.  `applied` counts the calls
\* of the middleware.
GetCall(c, key) ==
    /\ c \notin DOMAIN calls
    /\ IF "get" \in middlewares
         THEN /\ middlewares' = Removed(middlewares)
              /\ calls' = Started(c, [op |-> "get", pc |-> "middleware", arg |-> key,
                                      key |-> key, applied |-> 1,
                                      entry |-> Undefined])
         ELSE /\ middlewares' = middlewares
              /\ calls' = Started(c, [op |-> "get", pc |-> "read", arg |-> key,
                                      key |-> key, applied |-> 0,
                                      entry |-> Undefined])
    /\ last' = Call("get()", <<key>>, Undefined, NoError)
    /\ posts' = <<>>
    /\ UNCHANGED <<now, store, indexes, consume_default, environment, version,
                   handle, released, hook, generator, table, written,
                   last_modified, inflight>>

\* The get that the middleware called returns: it ran get's own code, so
\* with the hook installed it would run the middleware too.  "redirect"
\* then returns "enola" (here MiddlewareKey) and get installs the hook
\* again; "dirty" asserts that the entry is defined, and throws if it is
\* not, which get does not catch: the call fails with the hook removed.
GetMiddleware(c) ==
    LET tbl == Table
        call == calls[c]
        nested == "get" \in middlewares
        entry == get(tbl, call.arg)
        applied == call.applied + (IF nested THEN 1 ELSE 0)
    IN  /\ c \in DOMAIN calls
        /\ call.op = "get"
        /\ call.pc = "middleware"
        /\ table' = tbl
        /\ Post(SweepPosts(table, now))
        /\ IF hook = "redirect"
             THEN /\ calls' = [calls EXCEPT ![c].pc = "read", ![c].entry = entry,
                                            ![c].key = MiddlewareKey,
                                            ![c].applied = applied]
                  /\ middlewares' = Installed(middlewares)
                  /\ last' = Call("get.middleware", <<call.arg>>, MiddlewareKey, NoError)
             ELSE IF entry = Undefined
                    THEN /\ calls' = Returned(c)
                         /\ middlewares' = middlewares
                         /\ last' = Call("get", <<call.arg>>, Undefined, AssertionError)
                    ELSE /\ calls' = [calls EXCEPT ![c].pc = "update",
                                                   ![c].entry = entry,
                                                   ![c].applied = applied]
                         /\ middlewares' = middlewares
                         /\ last' = Call("get.middleware", <<call.arg>>, entry, NoError)
        /\ UNCHANGED <<now, store, indexes, consume_default, environment, version,
                       handle, released, hook, generator, written>>

\* The update that the middleware "dirty" called returns, the middleware
\* returns the key and get installs the hook again; or the update fails,
\* and the call with it, the hook removed.
GetUpdate(c) ==
    LET tbl == Table
        call == calls[c]
        res == UpdateRow(tbl, call.arg, [value |-> DirtyPatch, options |-> Undefined])
    IN  /\ c \in DOMAIN calls
        /\ call.op = "get"
        /\ call.pc = "update"
        /\ IF res.error # NoError
             THEN /\ table' = tbl
                  /\ Post(SweepPosts(table, now))
                  /\ calls' = Returned(c)
                  /\ middlewares' = middlewares
                  /\ last' = Call("get", <<call.arg>>, Undefined, res.error)
                  /\ UNCHANGED written
             ELSE /\ table' = [tbl EXCEPT ![call.arg] = res.row]
                  /\ Post(SweepPosts(table, now) \o <<Message("update")>>)
                  /\ calls' = [calls EXCEPT ![c].pc = "read"]
                  /\ middlewares' = Installed(middlewares)
                  /\ last' = Call("get.middleware", <<call.arg>>, call.arg, NoError)
                  /\ written' = Touch({call.arg})
        /\ UNCHANGED <<now, store, indexes, consume_default, environment, version,
                       handle, released, hook, generator>>

\* (await (await this._table()).get(key))?.value (lines 1191-1193)
GetRead(c) ==
    LET tbl == Table
        call == calls[c]
    IN  /\ c \in DOMAIN calls
        /\ call.op = "get"
        /\ call.pc = "read"
        /\ table' = tbl
        /\ Post(SweepPosts(table, now))
        /\ calls' = Returned(c)
        /\ last' = Call("get", <<call.arg>>,
                        IF call.key \in DOMAIN tbl THEN tbl[call.key].value
                                                  ELSE Undefined,
                        NoError)
        /\ UNCHANGED <<now, store, indexes, consume_default, middlewares,
                       environment, version, handle, released, hook, generator,
                       written>>

(***************************************************************************)
(* update with an updater function, step by step (lines 1138-1166).  The   *)
(* cursor is opened in a readwrite transaction on the object store; the    *)
(* engine runs the readwrite transactions on one store one after another,  *)
(* so while the transaction of a call is active (`live`) no other          *)
(* operation reaches the table.  A transaction stays active while its      *)
(* requests and their continuations run; when the updater awaits anything  *)
(* else, the transaction commits, and the cursor.update that follows       *)
(* throws TransactionInactiveError.                                        *)
(***************************************************************************)
TransactionInactiveError == <<"TransactionInactiveError">>

\* An engine that lets every transaction on the store run at once.
LockedNever == FALSE

\* The readwrite transaction of a call of update is active.
Locked == \E c \in DOMAIN calls : calls[c].op = "update" /\ calls[c].live

\* The updater of the model: it counts, returning {value: {n: old n + 1}}
\* for the entry it is given.
Updater(entry) ==
    [value |-> Obj([n |-> Num(Prop(entry.value, "n").n + 1)]), options |-> Undefined]

\* update(key, updater) is called; its transactions wait for their turn.
UpdateCall(c, key) ==
    /\ c \notin DOMAIN calls
    /\ calls' = Started(c, [op |-> "update", pc |-> "cursor", arg |-> key,
                            entry |-> Undefined, live |-> FALSE])
    /\ last' = Call("update()", <<key>>, Undefined, NoError)
    /\ posts' = <<>>
    /\ UNCHANGED <<now, store, indexes, consume_default, middlewares, environment,
                   version, handle, released, hook, generator, table, written,
                   last_modified, inflight>>

\* The sweep of _table("readwrite"), then the cursor on the key: with no
\* row update throws, with one it calls the updater with the entry of the
\* cursor.
UpdateOpen(c) ==
    LET tbl == Table
        key == calls[c].arg
    IN  /\ c \in DOMAIN calls
        /\ calls[c].op = "update"
        /\ calls[c].pc = "cursor"
        /\ ~ Locked
        /\ table' = tbl
        /\ Post(SweepPosts(table, now))
        /\ IF key \notin DOMAIN tbl
             THEN /\ calls' = Returned(c)
                  /\ last' = Call("update", <<key>>, Undefined, NoSuchEntry(key))
             ELSE /\ calls' = [calls EXCEPT ![c].pc = "updater",
                                            ![c].entry = tbl[key],
                                            ![c].live = TRUE]
                  /\ last' = Call("update.cursor", <<key>>, Undefined, NoError)
        /\ UNCHANGED <<now, store, indexes, consume_default, middlewares,
                       environment, version, handle, released, hook, generator,
                       written>>

\* The updater awaits something that is not a request of the transaction:
\* the transaction has nothing to do and commits.
UpdaterAwaits(c) ==
    /\ c \in DOMAIN calls
    /\ calls[c].op = "update"
    /\ calls[c].pc = "updater"
    /\ calls[c].live
    /\ calls' = [calls EXCEPT ![c].live = FALSE]
    /\ last' = Call("update.updater", <<calls[c].arg>>, Undefined, NoError)
    /\ posts' = <<>>
    /\ UNCHANGED <<now, store, indexes, consume_default, middlewares, environment,
                   version, handle, released, hook, generator, table, written,
                   last_modified, inflight>>

\* The updater has returned: cursor.update with the merge of the cursor's
\* entry and what the updater returned (lines 1154-1163), then the post.
UpdateWrite(c) ==
    LET call == calls[c]
        held == (call.arg :> call.entry)
        res == UpdateRow(held, call.arg, Updater(call.entry))
    IN  /\ c \in DOMAIN calls
        /\ call.op = "update"
        /\ call.pc = "updater"
        /\ calls' = Returned(c)
        /\ IF ~ call.live
             THEN /\ last' = Call("update", <<call.arg>>, Undefined,
                                  TransactionInactiveError)
                  /\ posts' = <<>>
                  /\ UNCHANGED <<table, written, last_modified, inflight>>
             ELSE IF res.error # NoError
                    THEN /\ last' = Call("update", <<call.arg>>, Undefined, res.error)
                         /\ posts' = <<>>
                         /\ UNCHANGED <<table, written, last_modified, inflight>>
                    ELSE /\ last' = Call("update", <<call.arg>>, Undefined, NoError)
                         /\ table' = [k \in (DOMAIN table) \cup {call.arg} |->
                                         IF k = call.arg THEN res.row ELSE table[k]]
                         /\ Post(<<Message("update")>>)
                         /\ written' = Touch({call.arg})
        /\ UNCHANGED <<now, store, indexes, consume_default, middlewares,
                       environment, version, handle, released, hook, generator>>

(***************************************************************************)
(* init (lines 714-800), close (847-850) and indexes (852-856).            *)
(***************************************************************************)
\* new Error("Database version should be at least 1") (line 730)
InvalidVersion == <<"Database version should be at least 1">>

\* What IDBFactory.open fails with when the database is newer.
VersionError == <<"VersionError">>

\* An openDB that runs upgrade also when the database has the version asked.
UpgradingAgain(found, requested) == found <= requested

\* openDB runs upgrade when the database is older than the version asked.
Upgrading(found, requested) == found < requested

NamesOf(ix) == {idx.name : idx \in ix}

\* upgrade, before migrate: the two reserved indexes and the caller's, each
\* created when the store has no index of its name (lines 767-783).
upgrade(ix, declared) ==
    ix \cup {idx \in BuiltInIndexes \cup declared : idx.name \notin NamesOf(ix)}

\* A deleteIndex that leaves the index where it is.
deleteNothing(ix, name) == ix

\* table.deleteIndex(name) of an index the store has (line 791).
deleteIndex(ix, name) == {idx \in ix : idx.name # name}

\* indexes(): the store's index names without the reserved two.
indexNames(ix) == NamesOf(ix) \ {"byExpiry", "byTimestamp"}

\* The migrate callbacks of the model, by name: none (""); one that does
\* nothing; one that calls remove_index("bySlug"); and the one of
\* test/index.ts (lines 1065-1076), which calls remove_index("bySlug") and
\* then update(key, {value: {vote: 0}}) for every entry of values().
Migrations == {"", "nothing", "remove_index", "vote"}

VotePatch == Obj([vote |-> Num(0)])

\* this._bc = new BroadcastChannel(..); addEventListener (lines 739-742)
Subscribed ==
    [h \in (DOMAIN inflight) \cup {Performer} |->
        IF h \in DOMAIN inflight THEN inflight[h] ELSE <<>>]

\* init(identifier, {version, indexes, migrate}), up to `await migrating`.
\* openDB takes options.version ?? 1; IDBFactory.open throws a TypeError
\* for the version 0 and fails with VersionError for a version below the
\* database's; an open that needs an upgrade waits for the connections
\* to the database to close.
init(identifier, v, declared, migrate) ==
    LET requested == IF v = Undefined THEN 1 ELSE v.n
        args == <<v, declared, Str(migrate)>>
        rejects(error) ==
            /\ last' = Call("init", args, Undefined, error)
            /\ handle' = [Handle("failed", identifier, version, <<>>, "")
                             EXCEPT !.leaked = handle.leaked, !.db = handle.db]
            /\ inflight' = Subscribed
            /\ released' = Reopened(Performer)
            /\ UNCHANGED <<version, indexes>>
        resolves ==
            /\ last' = Call("init", args, Undefined, NoError)
            /\ handle' = Resolve([Handle("ready", identifier, version, <<>>, "")
                                     EXCEPT !.leaked = handle.leaked])
            /\ inflight' = Subscribed
            /\ released' = Reopened(Performer)
        blocked ==
            /\ last' = Call("blocked", args, Undefined, NoError)
            /\ handle' = [Handle("blocked", identifier, version, <<>>, "")
                             EXCEPT !.leaked = handle.leaked, !.db = handle.db]
            /\ inflight' = Subscribed
            /\ released' = Reopened(Performer)
            /\ UNCHANGED <<version, indexes>>
    IN  /\ handle.state \in {"new", "failed", "closed", "deleted"}
        /\ handle.identifier \in {"", identifier}
        /\ IF Truthy(v) /\ v.n <= 0
             THEN /\ last' = Call("init", args, Undefined, InvalidVersion)
                  /\ UNCHANGED <<handle, inflight, version, indexes, released>>
             ELSE IF requested = 0
                    THEN rejects(TypeError)
                    ELSE IF requested < version
                           THEN rejects(VersionError)
                           ELSE IF ~ Upgrading(version, requested)
                                  THEN resolves /\ UNCHANGED <<version, indexes>>
                                  ELSE IF handle.leaked
                                         THEN blocked
                                         ELSE /\ version' = requested
                                              /\ indexes' = upgrade(indexes, declared)
                                              /\ IF migrate = ""
                                                   THEN resolves
                                                   ELSE /\ last' = Call("upgrade", args,
                                                                        Undefined, NoError)
                                                        /\ handle' =
                                                              [Handle("migrating", identifier,
                                                                      version, <<version>>,
                                                                      migrate)
                                                                 EXCEPT !.db = "temp"]
                                                        /\ inflight' = Subscribed
                                                        /\ released' = Reopened(Performer)
        /\ posts' = <<>>
        /\ UNCHANGED <<now, store, consume_default, middlewares, environment,
                       generator, table, written, last_modified, hook, calls>>

\* The promise of migrate settles and init goes on after `await migrating`.
\* remove_index is table.deleteIndex(name) (line 792), which throws
\* NotFoundError when the store has no index of the name: the promise of
\* the callback rejects, and init with it, after the upgrade.
migrated ==
    LET tbl == Table
        name == handle.migrate
        removes == name \in {"remove_index", "vote"}
        listed == byTimestamp(tbl, FALSE)
        options(k) == obj_merge(tbl[k].options, Undefined)
        value(k) == MergeValue(tbl[k].value, VotePatch)
        row(k) == Entry(value(k).v, options(k).v, Undefined)
        \* the updates are not awaited: one that rejects changes nothing
        voted == IF name = "vote"
                   THEN {k \in {listed[i] : i \in DOMAIN listed} :
                            /\ ~ options(k).thrown
                            /\ ~ value(k).thrown
                            /\ CursorUpdateError(tbl, row(k), k) = NoError}
                   ELSE {}
    IN  /\ handle.state = "migrating"
        /\ IF removes /\ "bySlug" \notin NamesOf(indexes)
             THEN /\ last' = Call("init", last.args, Undefined, NotFoundError)
                  /\ handle' = [handle EXCEPT !.state = "failed", !.migrate = "",
                                               !.leaked = TRUE]
                  /\ table' = tbl
                  /\ Post(SweepPosts(table, now))
                  /\ UNCHANGED <<indexes, written>>
             ELSE /\ last' = Call("init", last.args, Undefined, NoError)
                  /\ handle' = Resolve(handle)
                  /\ indexes' = IF removes
                                  THEN deleteIndex(indexes, "bySlug")
                                  ELSE indexes
                  /\ table' = [k \in DOMAIN tbl |->
                                  IF k \in voted THEN row(k) ELSE tbl[k]]
                  /\ Post(SweepPosts(table, now)
                            \o [i \in 1..Cardinality(voted) |-> Message("update")])
                  /\ written' = Touch(voted)
        /\ UNCHANGED <<now, store, consume_default, middlewares, environment,
                       version, generator, released, hook, calls>>

\* this._bc.close(): the platform's channel stops listening and drops
\* what was on its way; the close of the one in test/index.ts does nothing.
bc_close(h) ==
    IF environment = "test"
      THEN inflight
      ELSE [k \in (DOMAIN inflight) \ {h} |-> inflight[k]]

\* close(): this._db.close(); this._bc.close().
close ==
    /\ handle.state = "ready"
    /\ handle' = [handle EXCEPT !.state = "closed", !.db = "closed"]
    /\ inflight' = bc_close(Performer)
    /\ released' = Released(Performer, "close")
    /\ last' = Call("close", <<>>, Undefined, NoError)
    /\ posts' = <<>>
    /\ UNCHANGED <<now, store, indexes, consume_default, middlewares, environment,
                   version, generator, table, written, last_modified, hook, calls>>

\* A deleteDB that leaves the rows to the database created next.
deleteNoRows(tbl) == tbl

\* The rows of the database that an open creates after deleteDB.
deleteDB(tbl) == [k \in {} |-> tbl[k]]

\* delete() (lines 1287-1290): this._db.close(); return deleteDB(identifier).
\* The channel is not closed.  deleteDB waits for every connection to the
\* database to close, so it stays blocked when an init has leaked one.
delete ==
    /\ handle.state = "ready"
    /\ IF handle.leaked
         THEN /\ handle' = [handle EXCEPT !.state = "blocked", !.db = "closed"]
              /\ last' = Call("blocked", <<>>, Undefined, NoError)
              /\ UNCHANGED <<version, indexes, table, generator, written>>
         ELSE /\ handle' = [handle EXCEPT !.state = "deleted", !.db = "closed"]
              /\ last' = Call("delete", <<>>, Undefined, NoError)
              /\ version' = 0
              /\ indexes' = {}
              /\ table' = deleteDB(table)
              /\ generator' = 1
              /\ written' = Touch(DOMAIN written)
    /\ released' = Released(Performer, "delete")
    /\ posts' = <<>>
    /\ UNCHANGED <<now, store, consume_default, middlewares, environment,
                   last_modified, inflight, hook, calls>>

\* indexes() (lines 852-856) opens its transaction on the object store
\* named "store", whatever the identifier: the database of another
\* identifier has no such object store and transaction() throws.
Indexes ==
    /\ handle.state = "ready"
    /\ last' = IF handle.identifier = "store"
                 THEN Call("indexes", <<>>, indexNames(indexes), NoError)
                 ELSE Call("indexes", <<>>, Undefined, NotFoundError)
    /\ posts' = <<>>
    /\ UNCHANGED <<now, static, generator, table, written, last_modified, inflight>>

(***************************************************************************)
(* The callers' inputs.                                                    *)
(***************************************************************************)
Keys == {Num(0), Str("a")}

O1 == Obj([id |-> Num(0), n |-> Obj([c |-> Str("a")])])
O2 == Obj([id |-> Str("a")])

SetValues == {O1, O2}

NoOptions == Obj(NoProps)

ExpiryOptions == {Obj([expiry |-> Num(t)]) : t \in 1..MaxTime}

\* A patch of one nested field, which O1 has and O2 has not.
ValuePatch == Obj([n |-> Obj([c |-> Str("b")])])

UpdateData ==
    [value : {Undefined, ValuePatch},
     options : {Undefined, Obj([expiry |-> Num(1)])}]

\* The consume_default of the handles that have one.
ConsumeDefault == Obj([id |-> Num(0)])

Snapshots ==
    {Arr(<<>>),
     Arr(<<MapEntry(Num(0), Entry(O2, Obj([expiry |-> Num(1)]), Num(0)))>>)}

IndexOptions ==
    {Undefined,
     Obj([mode |-> Str("only"), value |-> Num(0)]),
     Obj([page |-> Num(1), page_sz |-> Num(1), reverse |-> Bool(TRUE)])}

PageOptions ==
    {Obj([reverse |-> r, sz |-> Num(1)]) : r \in {Undefined, Bool(TRUE)}}

NoRows == [k \in {} |-> Undefined]

ExplicitKeys == [autoIncrement |-> FALSE, keyPath |-> FALSE]

(***************************************************************************)
(* Spec: a handle on a store with caller-supplied keys, after init, with   *)
(* or without a consume_default and without middlewares.                   *)
(***************************************************************************)
Init ==
    /\ now = 0
    /\ store = ExplicitKeys
    /\ indexes = BuiltInIndexes \cup {CallerIndex("byId", <<"id">>, FALSE, FALSE)}
    /\ generator = 1
    /\ table = NoRows
    /\ consume_default \in {Undefined, ConsumeDefault}
    /\ middlewares = {}
    /\ last = Call("init", <<>>, Undefined, NoError)
    /\ posts = <<>>
    /\ Opened("platform", {Performer})
    /\ Ready
    /\ written = NoRows

\* A set without a key is one that this store refuses.
DoSet ==
    \/ \E key \in Keys, options \in {NoOptions} \cup ExpiryOptions :
          Set(O1, key, options)
    \/ Set(O1, Undefined, NoOptions)
DoUpdate == \E key \in Keys, data \in UpdateData : Update(key, data)
DoConsume == \E key \in Keys : Consume(key)
DoRm == \E key \in Keys : Rm(key)
DoImport == \E set \in Snapshots, merge \in BOOLEAN : Import(set, merge)
DoHas == \E key \in Keys : Has(key)
DoGet == \E key \in Keys : Get(key)
DoGetSome == GetSome(<<Num(0), Str("a")>>)
DoValues == \E reverse \in BOOLEAN : Values(reverse)
DoPage == \E number \in 1..2, options \in PageOptions : Page(number, options)
DoIndex == \E options \in IndexOptions : Index("byId", options)

Next ==
    \/ Tick
    \/ DoSet
    \/ DoUpdate
    \/ DoConsume
    \/ DoRm
    \/ Clear
    \/ DoImport
    \/ Export
    \/ DoHas
    \/ DoGet
    \/ DoGetSome
    \/ Length
    \/ DoValues
    \/ DoPage
    \/ DoIndex

Spec == Init /\ [][Next]_vars

(***************************************************************************)
(* SpecMerge: updates, one between two ticks, of a row that set has        *)
(* written, for every old value of MergeValues and every patch of          *)
(* MergePatches.  A second row, under the other key, is there to be left   *)
(* alone.                                                                  *)
(***************************************************************************)
\* The objects with an optional field x and an optional field n, n a
\* primitive or an object with optional fields c and d.
Nested(prim) ==
    {Obj(NoProps), Obj([c |-> prim]), Obj([d |-> prim]), Obj([c |-> prim, d |-> prim])}

Objects(prim) ==
    {Obj(NoProps), Obj([x |-> prim])}
      \cup {Obj([n |-> n]) : n \in {prim} \cup Nested(prim)}
      \cup {Obj([x |-> prim, n |-> n]) : n \in {prim} \cup Nested(prim)}

MergeValues == Objects(Str("a")) \cup {Str("a"), Arr(<<>>), Arr(<<Str("a")>>)}

MergePatches ==
    Objects(Str("b")) \cup {Undefined, Str("b"), Arr(<<>>), Arr(<<Str("b")>>)}

MergeData ==
    [value : MergePatches,
     options : {Undefined, NoOptions, Obj([expiry |-> Num(1)])}]

InitMerge ==
    /\ now = 0
    /\ store = ExplicitKeys
    /\ indexes = BuiltInIndexes
    /\ generator = 1
    /\ \E value \in MergeValues, options \in {NoOptions} \cup ExpiryOptions :
          table = [k \in Keys |-> IF k = Num(0)
                                    THEN Entry(value, options, Num(0))
                                    ELSE Entry(O1, Obj([expiry |-> Num(1)]), Num(0))]
    /\ consume_default = Undefined
    /\ middlewares = {}
    /\ last = Call("init", <<>>, Undefined, NoError)
    /\ posts = <<>>
    /\ Opened("platform", {Performer})
    /\ Ready
    /\ written = NoRows

FirstUpdate ==
    /\ last.op \in {"init", "tick"}
    /\ \E key \in Keys, data \in MergeData : Update(key, data)

NextMerge ==
    \/ Tick
    \/ FirstUpdate

SpecMerge == InitMerge /\ [][NextMerge]_vars

(***************************************************************************)
(* SpecKeys: the four key policies a store can be created with (lines      *)
(* 757-762): caller-supplied keys, a key generator, a key path, or both.   *)
(***************************************************************************)
NoId == Obj([n |-> Obj([c |-> Str("a")])])

KeysValues == {O1, O2, NoId, Str("a")}

\* The keys a caller gives, and the ones the generator makes.
StoredKeys == Keys \cup {Num(i) : i \in 1..MaxGen}

InitKeys ==
    /\ now = 0
    /\ store \in [autoIncrement : BOOLEAN, keyPath : BOOLEAN]
    /\ indexes = BuiltInIndexes
    /\ generator = 1
    /\ table = NoRows
    /\ consume_default = Undefined
    /\ middlewares = {}
    /\ last = Call("init", <<>>, Undefined, NoError)
    /\ posts = <<>>
    /\ Opened("platform", {Performer})
    /\ Ready
    /\ written = NoRows

KeysSet == \E value \in KeysValues, key \in Keys \cup {Undefined} :
              Set(value, key, NoOptions)
KeysRm == \E key \in StoredKeys : Rm(key)
KeysGet == \E key \in StoredKeys : Get(key)

NextKeys ==
    \/ KeysSet
    \/ KeysRm
    \/ KeysGet

SpecKeys == InitKeys /\ [][NextKeys]_vars

(***************************************************************************)
(* SpecOrder: three keys, written at different times or at the same time,  *)
(* and the walks of values and page over them.                             *)
(***************************************************************************)
OrderKeys == {Num(0), Str("a"), Str("b")}

Numbers == 1..3

Sizes == {Undefined, Num(0), Num(1), Num(2)}

Offsets == {Undefined, Num(0), Num(1), Num(2)}

Reverses == {Undefined, Bool(FALSE), Bool(TRUE)}

AllPageOptions ==
    {Obj([reverse |-> r, sz |-> sz, offset |-> o]) :
        r \in Reverses, sz \in Sizes, o \in Offsets}

OrderSet == \E value \in SetValues, key \in OrderKeys : Set(value, key, NoOptions)
OrderUpdate == \E key \in OrderKeys :
                  Update(key, [value |-> ValuePatch, options |-> Undefined])
OrderRm == \E key \in OrderKeys : Rm(key)
OrderPage == \E number \in 1..2,
                 options \in {Obj([sz |-> Num(1)]),
                              Obj([reverse |-> Bool(TRUE), sz |-> Num(2),
                                   offset |-> Num(1)])} : Page(number, options)

InitOrder ==
    /\ now = 0
    /\ store = ExplicitKeys
    /\ indexes = BuiltInIndexes
    /\ generator = 1
    /\ table = NoRows
    /\ consume_default = Undefined
    /\ middlewares = {}
    /\ last = Call("init", <<>>, Undefined, NoError)
    /\ posts = <<>>
    /\ Opened("platform", {Performer})
    /\ Ready
    /\ written = NoRows

NextOrder ==
    \/ Tick
    \/ OrderSet
    \/ OrderUpdate
    \/ OrderRm
    \/ DoValues
    \/ OrderPage

SpecOrder == InitOrder /\ [][NextOrder]_vars

(***************************************************************************)
(* SpecIndex: a store with an index on value.i and a multiEntry index on   *)
(* value.tags, three keys, and rows with and without the indexed           *)
(* properties, set at different times or at the same time, and updated.    *)
(***************************************************************************)
\* The rows of SpecIndex, as <<key, value>>: the least key has the greatest
\* value.i, and the key "b" has a row with i and one without i and tags.
IndexRows ==
    {<<Num(0), Obj([i |-> Num(2), tags |-> Arr(<<Str("a")>>)])>>,
     <<Str("a"), Obj([i |-> Num(1), tags |-> Arr(<<Str("a"), Str("b")>>)])>>,
     <<Str("b"), Obj([i |-> Num(1), tags |-> Arr(<<Str("b")>>)])>>,
     <<Str("b"), Obj([tags |-> Arr(<<>>)])>>}

IndexNames == {"byI", "byTags"}

\* The index calls of SpecIndex.
IndexCalls ==
    {Undefined,
     Obj([reverse |-> Bool(TRUE)]),
     Obj([mode |-> Str("only"), value |-> Str("a")]),
     Obj([mode |-> Str("above"), value |-> Num(1), inclusive |-> Bool(TRUE),
          page |-> Num(1), page_sz |-> Num(1)]),
     Obj([page |-> Num(2), page_sz |-> Num(1), offset |-> Num(1)]),
     Obj([page |-> Num(1), page_sz |-> Num(2), reverse |-> Bool(TRUE)]),
     Obj([page |-> Num(1)]),
     Obj([mode |-> Str("range"), lower_value |-> Num(1), upper_value |-> Num(2),
          lower_inclusive |-> Bool(TRUE)])}

InitIndex ==
    /\ now = 0
    /\ store = ExplicitKeys
    /\ indexes = BuiltInIndexes \cup {CallerIndex("byI", <<"i">>, FALSE, FALSE),
                  CallerIndex("byTags", <<"tags">>, FALSE, TRUE)}
    /\ generator = 1
    /\ table = NoRows
    /\ consume_default = Undefined
    /\ middlewares = {}
    /\ last = Call("init", <<>>, Undefined, NoError)
    /\ posts = <<>>
    /\ Opened("platform", {Performer})
    /\ Ready
    /\ written = NoRows

IndexSet ==
    \E row \in IndexRows, options \in {NoOptions, Obj([expiry |-> Num(1)])} :
        Set(row[2], row[1], options)
IndexRm == \E key \in OrderKeys : Rm(key)
IndexIndex == \E name \in IndexNames, options \in IndexCalls : Index(name, options)

NextIndex ==
    \/ Tick
    \/ IndexSet
    \/ IndexRm
    \/ IndexIndex

SpecIndex == InitIndex /\ [][NextIndex]_vars

(***************************************************************************)
(* SpecChannel: two handles open on one identifier, `store` that is called *)
(* and `parallel_store` that listens, under either BroadcastChannel.       *)
(***************************************************************************)
InitChannel ==
    /\ now = 0
    /\ store = ExplicitKeys
    /\ indexes = BuiltInIndexes
    /\ generator = 1
    /\ table = NoRows
    /\ consume_default = Undefined
    /\ middlewares = {}
    /\ last = Call("init", <<>>, Undefined, NoError)
    /\ posts = <<>>
    /\ written = NoRows
    /\ \E env \in Environments : Opened(env, Handles)
    /\ Ready

ChannelKeys == {Str("a")}

ChannelSet ==
    \E key \in ChannelKeys, options \in {NoOptions, Obj([expiry |-> Num(1)])} :
        Set(O1, key, options)
ChannelUpdate ==
    \E key \in ChannelKeys :
        Update(key, [value |-> ValuePatch, options |-> Undefined])
ChannelConsume == \E key \in ChannelKeys : Consume(key)
ChannelRm == \E key \in ChannelKeys : Rm(key)
ChannelHas == \E key \in ChannelKeys : Has(key)
ChannelDeliver == \E h \in Handles : Deliver(h)

NextChannel ==
    \/ Tick
    \/ ChannelSet
    \/ ChannelUpdate
    \/ ChannelConsume
    \/ ChannelRm
    \/ Clear
    \/ ChannelHas
    \/ \E key \in ChannelKeys : Get(key)
    \/ GetSome(<<Str("a")>>)
    \/ Values(FALSE)
    \/ Page(1, Undefined)
    \/ Index("byTimestamp", Undefined)
    \/ Export
    \/ Length
    \/ ChannelDeliver

SpecChannel == InitChannel /\ [][NextChannel]_vars

(***************************************************************************)
(* SpecRelease: the two handles of SpecChannel; `parallel_store` is        *)
(* released, by close() or by delete(), while `store` goes on writing.     *)
(***************************************************************************)
\* close() (lines 847-850) or delete() (lines 1287-1290) on the handle h,
\* another handle having the database open: both close the connection,
\* close() closes the channel too, and the deleteDB of delete() waits for
\* the other connection to close.
Release(h, by) ==
    /\ h \notin DOMAIN released
    /\ released' = Released(h, by)
    /\ inflight' = IF by = "close" THEN bc_close(h) ELSE inflight
    /\ last' = Call(by, <<Str(h)>>, Undefined, NoError)
    /\ posts' = <<>>
    /\ UNCHANGED <<now, store, indexes, consume_default, middlewares, environment,
                   version, handle, hook, calls, generator, table, written,
                   last_modified>>

NextRelease ==
    \/ Tick
    \/ ChannelSet
    \/ ChannelRm
    \/ ChannelDeliver
    \/ \E by \in {"close", "delete"} : Release("parallel_store", by)

SpecRelease == InitChannel /\ [][NextRelease]_vars

(***************************************************************************)
(* SpecGet: a handle with a get middleware; up to two calls of get under   *)
(* way at a time, and set, rm and has between their steps.                 *)
(***************************************************************************)
CallIds == {1, 2}

GetRow == Obj([slug |-> Str("enola")])

InitGet ==
    /\ now = 0
    /\ store = ExplicitKeys
    /\ indexes = BuiltInIndexes
    /\ generator = 1
    /\ table = NoRows
    /\ consume_default = Undefined
    /\ middlewares = {"get"}
    /\ last = Call("init", <<>>, Undefined, NoError)
    /\ posts = <<>>
    /\ written = NoRows
    /\ Opened("platform", {Performer})
    /\ version = 1
    /\ handle = Resolve(Handle("ready", "store", 0, <<>>, ""))
    /\ hook \in Hooks
    /\ calls = <<>>

GetSet == \E key \in Keys : Set(GetRow, key, NoOptions)

NextGet ==
    \/ \E c \in CallIds, key \in Keys : GetCall(c, key)
    \/ \E c \in CallIds : GetMiddleware(c)
    \/ \E c \in CallIds : GetUpdate(c)
    \/ \E c \in CallIds : GetRead(c)
    \/ GetSet
    \/ DoRm
    \/ DoHas

SpecGet == InitGet /\ [][NextGet]_vars

\* The requests on the table that a call of get awaits complete.
FairSpecGet ==
    /\ SpecGet
    /\ \A c \in CallIds :
          /\ WF_vars(GetMiddleware(c))
          /\ WF_vars(GetUpdate(c))
          /\ WF_vars(GetRead(c))

(***************************************************************************)
(* SpecUpdate: rows that hold a count; up to two calls of update with the  *)
(* counting updater under way at a time, whose updaters return at once or  *)
(* await, and set, rm and get between their steps.  A count stops at       *)
(* MaxCount.                                                               *)
(***************************************************************************)
MaxCount == 2

Counts == {Obj([n |-> Num(0)])}

UpdateSet ==
    /\ ~ Locked
    /\ \E key \in Keys, value \in Counts : Set(value, key, NoOptions)
UpdateRm == ~ Locked /\ DoRm
UpdateGet == ~ Locked /\ DoGet

UpdateCount(c) ==
    /\ c \in DOMAIN calls
    /\ calls[c].arg \in DOMAIN table =>
          Prop(table[calls[c].arg].value, "n").n < MaxCount
    /\ UpdateOpen(c)

NextUpdate ==
    \/ \E c \in CallIds, key \in Keys : UpdateCall(c, key)
    \/ \E c \in CallIds : UpdateCount(c)
    \/ \E c \in CallIds : UpdaterAwaits(c)
    \/ \E c \in CallIds : UpdateWrite(c)
    \/ UpdateSet
    \/ UpdateRm
    \/ UpdateGet

SpecUpdate == Init /\ [][NextUpdate]_vars

(***************************************************************************)
(* SpecImport: export and import on a store of each key policy.            *)
(***************************************************************************)
\* What export gave on another store of rows keyed by their id.
ImportSnapshots ==
    {Arr(<<MapEntry(Num(0), Entry(O1, NoOptions, Num(0)))>>),
     Arr(<<MapEntry(Num(0), Entry(O1, NoOptions, Num(1))),
           MapEntry(Str("a"), Entry(O2, Obj([expiry |-> Num(2)]), Num(0)))>>)}

InitImport ==
    /\ now = 0
    /\ store \in [autoIncrement : BOOLEAN, keyPath : BOOLEAN]
    /\ indexes = BuiltInIndexes
    /\ generator = 1
    /\ table = NoRows
    /\ consume_default = Undefined
    /\ middlewares = {}
    /\ last = Call("init", <<>>, Undefined, NoError)
    /\ posts = <<>>
    /\ Opened("platform", {Performer})
    /\ Ready
    /\ written = NoRows

ImportSet ==
    \E value \in {O1, O2}, key \in Keys \cup {Undefined} :
        Set(value, key, NoOptions)
ImportRm == \E key \in Keys : Rm(key)
\* import(await export())
ImportExport == \E merge \in BOOLEAN : Import(export(Table), merge)
ImportImport ==
    \E set \in ImportSnapshots, merge \in BOOLEAN : Import(set, merge)

NextImport ==
    \/ Tick
    \/ ImportSet
    \/ ImportRm
    \/ ImportExport
    \/ ImportImport

SpecImport == InitImport /\ [][NextImport]_vars

(***************************************************************************)
(* SpecInit: one handle from its construction on; init, close and init     *)
(* again, with the versions, indexes and migrate callbacks below.          *)
(***************************************************************************)
\* "store" is the identifier of test/index.ts lines 1047 and 1078-1081.
Identifiers == {"store", "mylist"}

Versions == {Undefined, Num(-1), Num(0), Num(1), Num(2)}

bySlug == CallerIndex("bySlug", <<"slug">>, FALSE, FALSE)
byVote == CallerIndex("byVote", <<"vote">>, FALSE, FALSE)

Declared == {{}, {bySlug}, {byVote}}

\* The value that set gives the row of each key.
SlugRows ==
    (Num(0) :> Obj([slug |-> Str("a")]))
      @@ (Str("a") :> Obj([slug |-> Str("b"), vote |-> Num(1)]))

InitNew ==
    /\ now = 0
    /\ store = ExplicitKeys
    /\ indexes = {}
    /\ generator = 1
    /\ table = NoRows
    /\ consume_default = Undefined
    /\ middlewares = {}
    /\ last = Call("new", <<>>, Undefined, NoError)
    /\ posts = <<>>
    /\ written = NoRows
    /\ environment \in Environments
    /\ last_modified = [h \in {Performer} |-> -1]
    /\ inflight = [h \in {} |-> <<>>]
    /\ version = 0
    /\ handle = Handle("new", "", 0, <<>>, "")
    /\ released = <<>>
    /\ hook = ""
    /\ calls = <<>>

InitInit ==
    \E identifier \in Identifiers, v \in Versions, declared \in Declared,
       migrate \in Migrations :
        init(identifier, v, declared, migrate)
InitSet ==
    /\ handle.state = "ready"
    /\ \E key \in Keys : Set(SlugRows[key], key, NoOptions)
InitUpdate ==
    /\ handle.state = "ready"
    /\ Update(Num(0), [value |-> Obj([slug |-> Str("c")]), options |-> Undefined])
InitIndex_ == handle.state = "ready" /\ Index("bySlug", Undefined)

NextInit ==
    \/ InitInit
    \/ migrated
    \/ close
    \/ InitSet
    \/ InitUpdate
    \/ InitIndex_
    \/ Indexes
    \/ delete

SpecInit == InitNew /\ [][NextInit]_vars

(***************************************************************************)
(* SpecExpiry: the handle of Spec; rows set with an expiry and updates of  *)
(* the expiry alone, to an earlier, the same or a later time.              *)
(***************************************************************************)
ExpirySet == \E key \in Keys, options \in ExpiryOptions : Set(O1, key, options)
ExpiryUpdate ==
    \E key \in Keys, options \in ExpiryOptions :
        Update(key, [value |-> Undefined, options |-> options])

NextExpiry ==
    \/ Tick
    \/ ExpirySet
    \/ ExpiryUpdate
    \/ DoHas
    \/ DoGet

SpecExpiry == Init /\ [][NextExpiry]_vars

(***************************************************************************)
(* The properties.                                                         *)
(***************************************************************************)

\* The rows a read at `now` can see: there, and not past their expiry.
LiveKeys ==
    {k \in DOMAIN table :
        ~ (/\ TypeofObject(table[k].options)
           /\ Prop(table[k].options, "expiry").t = "number"
           /\ Prop(table[k].options, "expiry").n <= now)}

\* C1: a row written by set with options.expiry = t, and not overwritten,
\* updated, removed or consumed since, answers has(key) with TRUE while
\* now < t and with FALSE once now >= t.
C1_HasUntilExpiry ==
    \A k \in DOMAIN written :
        Prop(written[k].options, "expiry").t = "number" =>
            (has(Table, k) = (now < Prop(written[k].options, "expiry").n))

\* C2: set(value, key) inserts or overwrites the row at the effective key
\* and leaves the other rows alone; it returns the effective key, which is
\* the caller's key, the generator's next key or the key at the value's key
\* path; and get of that key, awaited next, returns exactly that value (with
\* the generated key in it, where the store put it there).
C2_SetThenGet ==
    [][(last'.op = "set" /\ last'.error = NoError) =>
          LET value == last'.args[1]
              key == last'.args[2]
              k == last'.ret
              got == get(Table', k)
          IN  /\ key # Undefined => k = key /\ got = value
              /\ (key = Undefined /\ ~ store.keyPath) =>
                     k = Num(generator) /\ got = value
              /\ (key = Undefined /\ store.keyPath) =>
                     /\ Prop(got, "id") = k
                     /\ \A p \in DOMAIN value.f : Prop(got, p) = value.f[p]
                     /\ Prop(value, "id") \in {Undefined, k}
              /\ LiveKeys' = LiveKeys \cup {k}
              /\ \A k2 \in LiveKeys \ {k} : table'[k2] = table[k2]]_vars

\* A set without a key has stored its value under a key the store made.
C2_Witness ==
    /\ last.op = "set"
    /\ last.error = NoError
    /\ store.keyPath
    /\ store.autoIncrement
    /\ last.ret = Num(2)
    /\ table[Num(2)].value = Obj([id |-> Num(2), n |-> Obj([c |-> Str("a")])])
    /\ Num(0) \in DOMAIN table

\* C3: update of a key with no live row fails with NoSuchEntry, whose
\* message carries the key's type and value; it creates no row, changes no
\* row and posts no notification of an update.
C3_UpdateMissing ==
    [][(last'.op = "update" /\ last'.args[1] \notin LiveKeys) =>
          LET key == last'.args[1]
          IN  /\ last'.error =
                    <<"cannot update non-existing entry: (",
                      IF key = Num(0) THEN "number" ELSE "string",
                      ") \"",
                      IF key = Num(0) THEN "0" ELSE "a",
                      "\"">>
              /\ \A k \in DOMAIN table' : k \in DOMAIN table /\ table'[k] = table[k]
              /\ \A i \in DOMAIN posts' : posts'[i].by # "update"]_vars

\* An update has failed on a key whose row is past its expiry, next to a
\* live row.
C3_Witness ==
    /\ last.op = "update"
    /\ last.error = NoSuchEntry(Num(0))
    /\ Len(posts) = 1
    /\ posts[1].by = "_rm_expired"
    /\ Str("a") \in DOMAIN table

RECURSIVE Preserved(_, _, _)
\* Every field of `old` that `patch` does not name, at every level of
\* nesting, is a field of `new` with the value it had.
Preserved(old, new, patch) ==
    \A p \in DOMAIN old.f :
        IF p \notin DOMAIN patch.f
          THEN p \in DOMAIN new.f /\ new.f[p] = old.f[p]
          ELSE (old.f[p].t = "object" /\ patch.f[p].t = "object") =>
                  /\ p \in DOMAIN new.f
                  /\ new.f[p].t = "object"
                  /\ Preserved(old.f[p], new.f[p], patch.f[p])

\* C4: update(key, patch) with a partial patch leaves every field of the
\* value and of the options that the patch does not name, at every level of
\* nesting, as it was, and leaves the row of every other key as it was.
C4_UpdateFrame ==
    [][(last'.op = "update" /\ last'.args[1] \in LiveKeys) =>
          LET key == last'.args[1]
              value == last'.args[2]
              options == last'.args[3]
              old == table[key]
          IN  /\ key \in DOMAIN table'
              /\ (old.value.t = "object" /\ value.t \in {"object", "undefined"}) =>
                    /\ table'[key].value.t = "object"
                    /\ Preserved(old.value, table'[key].value, value)
              /\ (old.options.t = "object" /\ options.t \in {"object", "undefined"}) =>
                    /\ table'[key].options.t = "object"
                    /\ Preserved(old.options, table'[key].options, options)
              /\ \A k2 \in LiveKeys \ {key} :
                    k2 \in DOMAIN table' /\ table'[k2] = table[k2]]_vars

\* An update has changed n.c of a row and kept x, n.d, the options and the
\* other key's row.
C4_Witness ==
    /\ last.op = "update"
    /\ last.error = NoError
    /\ last.args = <<Num(0), Obj([n |-> Obj([c |-> Str("b")])]), Undefined>>
    /\ table[Num(0)].value =
          Obj([x |-> Str("a"), n |-> Obj([c |-> Str("b"), d |-> Str("a")])])
    /\ table[Num(0)].options = Obj([expiry |-> Num(2)])
    /\ Str("a") \in DOMAIN table

RECURSIVE DeepMerge(_, _)
\* The merge of two objects as the policy states it: a nested object of the
\* patch is merged into the old one, or added where the old value has none;
\* any other field of the patch overwrites the old one.
DeepMerge(old, patch) ==
    Obj([p \in (DOMAIN old.f) \cup (DOMAIN patch.f) |->
           IF p \notin DOMAIN patch.f
             THEN old.f[p]
             ELSE IF /\ patch.f[p].t = "object"
                     /\ p \in DOMAIN old.f
                     /\ old.f[p].t = "object"
                    THEN DeepMerge(old.f[p], patch.f[p])
                    ELSE patch.f[p]])

\* What the policy makes of an old value (or options) and a patch of it;
\* Undefined where the policy says nothing.
Policy(old, patch) ==
    CASE patch.t = "undefined" -> old
      [] patch.t = "array" /\ old.t = "array" -> Arr(old.e \o patch.e)
      [] patch.t = "object" /\ old.t = "object" -> DeepMerge(old, patch)
      [] patch.t \in {"string", "number", "boolean"} -> patch
      [] OTHER -> Undefined

\* C5: update stores the merge of the old value and the patch: an array
\* patch appended to the old array, an object patch merged into the old
\* object at every level (a nested object given for a field the old value
\* does not have is added), a scalar patch in place of the old value, and
\* the old value where the patch omits it; the options likewise.
C5_MergePolicy ==
    [][(last'.op = "update" /\ last'.args[1] \in LiveKeys) =>
          LET key == last'.args[1]
              value == Policy(table[key].value, last'.args[2])
              options == Policy(table[key].options, last'.args[3])
          IN  (value # Undefined /\ options # Undefined) =>
                 /\ last'.error = NoError
                 /\ key \in DOMAIN table'
                 /\ table'[key].value = value
                 /\ table'[key].options = options]_vars

\* C6: every stored row holds one value, one options object and one
\* timestamp, and the timestamp is the time of the last set or update of
\* its key.
C6_RowShape ==
    [][/\ \A k \in DOMAIN table' :
             /\ DOMAIN table'[k] = {"value", "options", "timestamp"}
             /\ table'[k].options.t = "object"
             /\ table'[k].timestamp.t = "number"
       /\ (last'.op = "set" /\ last'.error = NoError) =>
             table'[last'.ret].timestamp = Num(now)
       /\ (last'.op = "update" /\ last'.error = NoError) =>
             table'[last'.args[1]].timestamp = Num(now)]_vars

\* The keys of an array of {key, ...} objects.
KeysOf(pairs) == {pairs[i].f.key : i \in 1..Len(pairs)}

\* C7: values() returns exactly one {key, value} pair for every live row:
\* its keys are the keys for which has() is true, and its size is length().
C7_ValuesFullDump ==
    LET pairs == values(Table, FALSE)
    IN  /\ KeysOf(pairs) = LiveKeys
        /\ Len(pairs) = Cardinality(LiveKeys)
        /\ \A k \in LiveKeys : Pair(table, k) \in {pairs[i] : i \in 1..Len(pairs)}
        /\ KeysOf(pairs) = {k \in Keys : has(Table, k)}
        /\ Len(pairs) = length(Table)

ReadOps == {"get", "get_some", "has", "values", "page", "index", "export", "length"}

\* C8: get, get_some, has, values, page, index, export and length return
\* no row whose expiry is <= now, and length counts the live rows only:
\* each of them runs the sweep first.
C8_ReadsSkipExpired ==
    LET dead == (DOMAIN table) \ LiveKeys
        both == <<Num(0), Str("a")>>
        live == SelectSeq(both, LAMBDA k : k \in LiveKeys)
    IN  /\ \A k \in Keys \ LiveKeys : ~ has(Table, k) /\ get(Table, k) = Undefined
        /\ get_some(Table, both) = [i \in 1..Len(live) |-> table[live[i]].value]
        /\ \A reverse \in BOOLEAN : KeysOf(values(Table, reverse)) \cap dead = {}
        /\ \A number \in 1..2, options \in PageOptions :
              KeysOf(page(Table, number, options).results) \cap dead = {}
        /\ \A options \in IndexOptions :
              \A out \in index(Table, "byId", options) :
                 /\ out.error = NoError
                 /\ KeysOf(IF out.v.t = "array"
                             THEN out.v.e ELSE out.v.f.results.e) \cap dead = {}
        /\ KeysOf(export(Table).e) \cap dead = {}
        /\ length(Table) = Cardinality(LiveKeys)
        /\ last.op \in ReadOps => dead = {}

\* values() has swept a row away and returned the one that is live.
C8_Witness ==
    /\ last.op = "values"
    /\ Len(posts) = 1
    /\ posts[1].by = "_rm_expired"
    /\ Len(last.ret.e) = 1
    /\ now = 1

\* C9: when every row was written by set at a time of its own and not
\* updated since, values() returns the rows in the order they were set,
\* and values(true) the same pairs in the reverse order.
C9_InsertionOrder ==
    LET pairs == values(Table, FALSE)
        back == values(Table, TRUE)
        at(i) == written[pairs[i].f.key].at
    IN  (/\ \A k \in DOMAIN table : k \in DOMAIN written
         /\ \A k1, k2 \in DOMAIN table : k1 # k2 => written[k1].at # written[k2].at)
        =>
        /\ KeysOf(pairs) = DOMAIN table
        /\ Len(pairs) = Cardinality(DOMAIN table)
        /\ \A i \in 1..Len(pairs) : pairs[i] = Pair(table, pairs[i].f.key)
        /\ \A i, j \in 1..Len(pairs) : i < j => at(i) < at(j)
        /\ Len(back) = Len(pairs)
        /\ \A i \in 1..Len(pairs) : back[i] = pairs[Len(pairs) + 1 - i]

\* Three rows set at three times, the greatest key first and the least key
\* last, and values(true) has returned them.
C9_Witness ==
    /\ last.op = "values"
    /\ last.args = <<Bool(TRUE)>>
    /\ DOMAIN written = OrderKeys
    /\ written[Str("b")].at = 0
    /\ written[Str("a")].at = 1
    /\ written[Num(0)].at = 2
    /\ Len(last.ret.e) = 3
    /\ last.ret.e[1].f.key = Num(0)

Unpaged(options) ==
    Obj([name \in DOMAIN options.f \ {"page", "page_sz", "offset"} |->
            options.f[name]])

\* C11: index(name, {page, page_sz, offset, ...query}) returns the elements
\* at the positions [(page-1)*page_sz + offset, page*page_sz + offset) of
\* what index(name, {...query}) returns, and has_next is true exactly when
\* that sequence has an element at or after page*page_sz + offset.
C11_IndexPage ==
    [][(/\ last'.op = "index"
        /\ last'.error = NoError
        /\ Prop(last'.args[2], "page") # Undefined)
       => LET options == last'.args[2]
              sz == Prop(options, "page_sz")
              offset == Prop(options, "offset")
              p == IF sz = Undefined THEN page_sz ELSE sz.n
              o == IF offset = Undefined THEN 0 ELSE offset.n
              from == (Prop(options, "page").n - 1) * p + o
              to == Prop(options, "page").n * p + o
              window(all) ==
                  LET shown == {i \in 0..(Len(all) - 1) : from <= i /\ i < to}
                  IN  Obj([results |->
                               Arr([i \in 1..Cardinality(shown) |-> all[from + i]]),
                           has_next |-> Bool(to < Len(all))])
          IN  \E whole \in index(Table, last'.args[1].s, Unpaged(options)) :
                /\ whole.error = NoError
                /\ whole.v.t = "array"
                /\ last'.ret = window(whole.v.e)]_vars

\* The second page of size 1, moved by 1, of three rows: the third row,
\* and nothing after it.
C11_Witness ==
    /\ last.op = "index"
    /\ last.args[1] = Str("byI")
    /\ Prop(last.args[2], "page") = Num(2)
    /\ Prop(last.args[2], "offset") = Num(1)
    /\ last.error = NoError
    /\ Len(last.ret.f.results.e) = 1
    /\ last.ret.f.has_next = Bool(FALSE)
    /\ Cardinality(DOMAIN table) = 3

\* What an index call without a query may return, as a set of sequences.
IndexAll(name, reverse) ==
    {out.v.e : out \in index(Table, name,
                             IF reverse THEN Obj([reverse |-> Bool(TRUE)])
                                        ELSE Undefined)}

IndexOf(name) == CHOOSE idx \in indexes : idx.name = name

\* The one index key of a row in an index that is not multi_entry.
IndexKeyOf(key, name) == CHOOSE ik \in IndexKeys(Table[key], IndexOf(name)) : TRUE

TimestampOf(pair) == Table[pair.f.key].timestamp.n

C13_SameKeyByTimestamp ==
    \A reverse \in BOOLEAN : \A rows \in IndexAll("byId", reverse) :
        \A i, j \in DOMAIN rows :
            (/\ i < j
             /\ IndexKeyOf(rows[i].f.key, "byId") = IndexKeyOf(rows[j].f.key, "byId"))
            => /\ HasTimestamp(Table[rows[i].f.key])
               /\ HasTimestamp(Table[rows[j].f.key])
               /\ IF reverse
                    THEN TimestampOf(rows[i]) >= TimestampOf(rows[j])
                    ELSE TimestampOf(rows[i]) <= TimestampOf(rows[j])

Position(seq, x) == CHOOSE i \in DOMAIN seq : seq[i] = x

\* The rows were inserted one after the other, at different times.
InsertedInTurn ==
    \A k1, k2 \in DOMAIN Table :
        /\ HasTimestamp(Table[k1])
        /\ k1 # k2 => Table[k1].timestamp # Table[k2].timestamp

\* C14: when the rows were inserted with strictly increasing timestamps,
\* index(name) returns them in insertion order, also where that is not the
\* order of their index keys, and index(name, {reverse: true}) returns the
\* exact reverse of that sequence.
C14_IndexInsertionOrder ==
    InsertedInTurn =>
        \A name \in IndexNames :
            LET inserted == byTimestamp(Table, FALSE)
            IN  \A rows \in IndexAll(name, FALSE) :
                  /\ \A k \in DOMAIN Table :
                         Cardinality({i \in DOMAIN rows : rows[i] = Pair(Table, k)})
                             = Cardinality(IndexKeys(Table[k], IndexOf(name)))
                  /\ \A i, j \in DOMAIN rows :
                         i < j => Position(inserted, rows[i].f.key)
                                      <= Position(inserted, rows[j].f.key)
                  /\ IndexAll(name, TRUE) = {Reverse(rows)}

\* The reverse of the insertion order 0, "a", "b", asked of the index byI
\* when key 0 holds the largest index key.
C14_Witness ==
    /\ InsertedInTurn
    /\ last.op = "index"
    /\ last.args = <<Str("byI"), Obj([reverse |-> Bool(TRUE)])>>
    /\ Len(last.ret.e) = 3
    /\ last.ret.e[1].f.key = Str("b")
    /\ last.ret.e[2].f.key = Str("a")
    /\ last.ret.e[3].f.key = Num(0)
    /\ Prop(table[Num(0)].value, "i") = Num(2)
    /\ byTimestamp(table, FALSE) = <<Num(0), Str("a"), Str("b")>>

\* The queries of an index on numbers, with every choice of the flags.
NumberQueries ==
    {Obj([mode |-> Str("only"), value |-> Num(1)])}
    \cup {Obj([mode |-> Str(mode), value |-> Num(v), inclusive |-> inclusive]) :
            mode \in {"above", "below"}, v \in 1..2,
            inclusive \in {Undefined, Bool(FALSE), Bool(TRUE)}}
    \cup {Obj([mode |-> Str("range"), lower_value |-> Num(1), upper_value |-> Num(2),
               lower_inclusive |-> lower, upper_inclusive |-> upper]) :
            lower \in {Undefined, Bool(TRUE)}, upper \in {Undefined, Bool(TRUE)}}

\* Some of an index on strings.
StringQueries ==
    {Obj([mode |-> Str("only"), value |-> Str("a")]),
     Obj([mode |-> Str("above"), value |-> Str("a")]),
     Obj([mode |-> Str("below"), value |-> Str("b"), inclusive |-> Bool(TRUE)]),
     Obj([mode |-> Str("range"), lower_value |-> Str("a"), upper_value |-> Str("b"),
          upper_inclusive |-> Bool(TRUE)])}

\* An index key satisfies a query.
Satisfies(ik, options) ==
    LET mode == Prop(options, "mode").s
        v == Prop(options, "value")
        lower == Prop(options, "lower_value")
        upper == Prop(options, "upper_value")
        with(flag) == Prop(options, flag) = Bool(TRUE)
    IN  CASE mode = "only" -> ik = v
          [] mode = "above" -> KeyLess(v, ik) \/ (with("inclusive") /\ ik = v)
          [] mode = "below" -> KeyLess(ik, v) \/ (with("inclusive") /\ ik = v)
          [] mode = "range" ->
                /\ KeyLess(lower, ik) \/ (with("lower_inclusive") /\ ik = lower)
                /\ KeyLess(ik, upper) \/ (with("upper_inclusive") /\ ik = upper)

\* The values a row offers an index: the property at the index's path, or
\* its elements when the index is multi_entry and the property an array.
Offered(key, name) ==
    LET v == PathValue(table[key].value, Tail(IndexOf(name).path))
    IN  IF IndexOf(name).multi_entry /\ v.t = "array"
          THEN {v.e[i] : i \in DOMAIN v.e}
          ELSE {v} \ {Undefined}

\* C15: index(name, query) returns exactly the live rows that have at least
\* one index key satisfying the query, for only, above, below and range
\* with their inclusive flags; of a multi_entry index any element of the
\* array counts, and a row without the indexed property never appears.
C15_IndexQuery ==
    \A name \in IndexNames :
        \A query \in (IF name = "byI" THEN NumberQueries ELSE StringQueries) :
            \A out \in index(Table, name, query) :
                /\ out.error = NoError
                /\ {out.v.e[i] : i \in DOMAIN out.v.e}
                     = {Pair(table, k) :
                          k \in {l \in LiveKeys :
                                   \E ik \in Offered(l, name) : Satisfies(ik, query)}}

\* The rows with 1 <= i < 2, asked for while the store also holds a row
\* with i = 2 and a row without i.
C15_Witness ==
    /\ last.op = "index"
    /\ last.args[1] = Str("byI")
    /\ Prop(last.args[2], "mode") = Str("range")
    /\ Len(last.ret.e) = 1
    /\ last.ret.e[1].f.key = Str("a")
    /\ DOMAIN table = {Num(0), Str("a"), Str("b")}
    /\ Prop(table[Num(0)].value, "i") = Num(2)
    /\ Prop(table[Str("b")].value, "i") = Undefined

\* C16: consume(key) on a live row returns the value the row held; on a
\* handle without a consume_default the row is gone afterwards (has is
\* false), on a handle with one the row still exists (has is true) and get
\* returns the default; consume of a key that has no row returns nothing
\* and changes nothing.
C16_Consume ==
    [][last'.op = "consume" =>
          LET key == last'.args[1]
          IN  IF key \in DOMAIN Table
                THEN /\ last'.error = NoError
                     /\ last'.ret = Table[key].value
                     /\ IF consume_default = Undefined
                          THEN /\ ~ has(rm_expired(table', now'), key)
                               /\ get(rm_expired(table', now'), key) = Undefined
                          ELSE /\ has(rm_expired(table', now'), key)
                               /\ get(rm_expired(table', now'), key) = consume_default
                ELSE /\ last'.error = NoError
                     /\ last'.ret = Undefined
                     /\ table' = Table]_vars

\* C17: consume on a handle with a consume_default replaces only the value
\* of the row: its options, the expiry among them, and its timestamp are
\* what they were before.
C17_ConsumeKeepsRow ==
    [][(/\ last'.op = "consume"
        /\ last'.error = NoError
        /\ consume_default # Undefined
        /\ last'.args[1] \in DOMAIN Table)
       => LET key == last'.args[1]
          IN  /\ key \in DOMAIN table'
              /\ table'[key].value = consume_default
              /\ table'[key].options = Table[key].options
              /\ table'[key].timestamp = Table[key].timestamp]_vars

\* C18: after rm(key), has(key) is false and get(key) finds nothing, and
\* every other row is what it was; rm of a key that has no row changes
\* nothing and does not fail.
C18_Rm ==
    [][last'.op = "rm" =>
          LET key == last'.args[1]
              after == rm_expired(table', now')
          IN  /\ last'.error = NoError
              /\ ~ has(after, key)
              /\ get(after, key) = Undefined
              /\ DOMAIN after = (DOMAIN Table) \ {key}
              /\ \A k \in DOMAIN after : after[k] = Table[k]
              /\ key \notin DOMAIN Table => table' = Table]_vars

\* rm("a") has removed a live row and left the row of key 0.
C18_Witness ==
    /\ last.op = "rm"
    /\ last.args = <<Str("a")>>
    /\ \E i \in DOMAIN posts : posts[i].by = "rm"
    /\ DOMAIN table = {Num(0)}

\* C19: after clear(), length is 0 and has(k) is false for every key; the
\* indexes of the store are what they were, and the handle is usable: a
\* set that follows writes its row.
C19_Clear ==
    [][/\ last'.op = "clear" =>
            /\ last'.error = NoError
            /\ length(rm_expired(table', now')) = 0
            /\ \A k \in Keys : ~ has(rm_expired(table', now'), k)
            /\ indexes' = indexes
            /\ index(rm_expired(table', now'), "byId", Undefined)
                   = {[error |-> NoError, v |-> Arr(<<>>)]}
       /\ (/\ last.op = "clear"
           /\ last'.op = "set"
           /\ last'.args[2] # Undefined)
          => /\ last'.error = NoError
             /\ indexes' = indexes
             /\ DOMAIN table' = {last'.args[2]}
             /\ table'[last'.args[2]].value = last'.args[1]]_vars

\* clear() has emptied a store that held rows.
C19_Witness ==
    /\ last.op = "clear"
    /\ \E i \in DOMAIN posts : posts[i].by = "clear"
    /\ table = NoRows
    /\ indexes # {}

\* The call that has just returned is one of those that change the store:
\* a set or an update that succeeded, a consume or an rm of a live row, a
\* clear of a store with rows, or any access whose sweep deleted a row.
Changing ==
    \/ last'.op \in {"set", "update"} /\ last'.error = NoError
    \/ last'.op \in {"consume", "rm"} /\ last'.args[1] \in DOMAIN Table
    \/ last'.op = "clear" /\ Table # NoRows
    \/ last'.op \notin {"init", "tick", "message"} /\ Table # table

\* C20: when such a call has returned, every handle open on the identifier,
\* the one that was called and the ones that were not, has a last_modified
\* that is no earlier than the time just before the call and no later than
\* the time now.
C20_AllHandlesNotified ==
    [][Changing =>
          \A h \in Handles :
              now <= last_modified'[h] /\ last_modified'[h] <= now']_vars

\* C21: every operation that changes the stored rows posts a notification:
\* set, update, rm, consume, clear, import with or without merge, and a
\* sweep that deletes rows.  So a call that leaves the table with other
\* rows than it found has posted at least one message.
C21_ChangePosts ==
    [][table' # table => posts' # <<>>]_vars

\* The call that has just returned is one that changes nothing: a read, an
\* rm or a consume of a key without a row, or a clear of an empty store.
Idle ==
    \/ last'.op \in {"get", "has", "get_some", "values", "page", "index",
                     "export", "length"}
    \/ last'.op \in {"rm", "consume"} /\ last'.args[1] \notin DOMAIN table
    \/ last'.op = "clear" /\ table = NoRows

\* C22: when no row has expired at the time of the call, a call that
\* changes nothing posts no notification, and leaves the last_modified of
\* every handle as it was: get, has, get_some, values, page, index, export,
\* length, rm and consume of an absent key, clear of an empty store.
C22_IdlePostsNothing ==
    [][(Idle /\ Table = table) =>
          /\ posts' = <<>>
          /\ last_modified' = last_modified
          /\ inflight' = inflight
          /\ table' = table]_vars

\* A clear of an empty store, on handles that have heard of an earlier
\* change, has posted nothing.
C22_Witness ==
    /\ last.op = "clear"
    /\ posts = <<>>
    /\ table = NoRows
    /\ \A h \in Handles : last_modified[h] = 0
    /\ now = 1

\* C23: on every handle last_modified is -1 from init until the first
\* notification is received, and never decreases afterwards, whatever the
\* interleaving of the operations of the handles on the identifier: it
\* changes only when the handle's listener receives a message, and then
\* to a time that is not earlier.
C23_LastModifiedMonotonic ==
    [][\A h \in Handles :
          /\ last_modified[h] <= last_modified'[h]
          /\ last_modified'[h] # last_modified[h] =>
                /\ \/ last'.op = "message" /\ last'.args = <<Str(h)>>
                   \/ environment = "test" /\ posts' # <<>>
                /\ last_modified'[h] \in 0..now']_vars

\* Under the platform's channel each handle has heard of a call made on
\* the other: store of one made at time 1, parallel_store of one at time 2.
C23_Witness ==
    /\ environment = "platform"
    /\ last_modified["store"] = 1
    /\ last_modified["parallel_store"] = 2
    /\ last.op = "message"

\* The rows of a snapshot, by key.
SnapshotKeys(set) == {set.e[i].f.key : i \in DOMAIN set.e}

SnapshotEntry(set, key) ==
    LET i == CHOOSE j \in DOMAIN set.e : set.e[j].f.key = key
    IN  set.e[i].f.entry.f

SnapshotRows(set) == [k \in SnapshotKeys(set) |-> SnapshotEntry(set, k)]

\* C24: import without merge leaves the store with exactly the keys and
\* entries of the snapshot, value, options and timestamp as they are in
\* it, and no other key; so import(export()) leaves the table as it was.
C24_ImportVerbatim ==
    [][(last'.op = "import" /\ last'.args[2] = Bool(FALSE)) =>
          /\ last'.error = NoError
          /\ table' = SnapshotRows(last'.args[1])
          /\ last'.args[1] = export(Table) => table' = Table]_vars

\* C25: import(snapshot, merge = true) into a populated store gives the
\* table that overwriting each key of the snapshot with the snapshot's
\* entry gives: a key of the target alone keeps its row, a key of both
\* takes the snapshot's entry, a key of the snapshot alone is added.
C25_ImportMerge ==
    [][(/\ last'.op = "import"
        /\ last'.args[2] = Bool(TRUE)
        /\ Table # NoRows)
       => /\ last'.error = NoError
          /\ table' = [k \in (DOMAIN Table) \cup SnapshotKeys(last'.args[1]) |->
                          IF k \in SnapshotKeys(last'.args[1])
                            THEN SnapshotEntry(last'.args[1], k)
                            ELSE Table[k]]]_vars

\* C26: an init given a version that is zero or negative rejects with
\* "Database version should be at least 1" and touches nothing: the
\* database and its version, the object store's indexes and rows, the
\* handle's fields and its subscription to the channel are as before.
C26_InvalidVersion ==
    [][(/\ last'.op = "init"
        /\ last'.args[1] # Undefined
        /\ last'.args[1].n <= 0)
       => /\ last'.error = InvalidVersion
          /\ UNCHANGED <<version, indexes, table, handle, inflight>>]_vars

\* The same for the negative versions alone.
C26_Negative ==
    [][(/\ last'.op = "init"
        /\ last'.args[1] # Undefined
        /\ last'.args[1].n < 0)
       => /\ last'.error = InvalidVersion
          /\ UNCHANGED <<version, indexes, table, handle, inflight>>]_vars

\* The inits that resolved in this step; Quiet are those whose migrate
\* callback, if any, touches neither the indexes nor the rows.
Resolved == last'.op = "init" /\ last'.error = NoError /\ handle'.state = "ready"
Quiet == last'.args[3] \in {Str(""), Str("nothing")}

\* C27: after an init that resolved, the store has byExpiry, byTimestamp
\* and every index the caller declared; the indexes it had are still
\* there and the new ones are among the reserved and the declared; and
\* every row that was stored is still stored, as it was.
C27_Reopen ==
    [][Resolved =>
          /\ DOMAIN table' = DOMAIN table
          /\ Quiet =>
                /\ NamesOf(BuiltInIndexes \cup last'.args[2]) \subseteq NamesOf(indexes')
                /\ indexes \subseteq indexes'
                /\ indexes' \ indexes \subseteq BuiltInIndexes \cup last'.args[2]
                /\ table' = table]_vars

\* The same for the inits that found the database older than the version
\* asked, for which openDB ran upgrade.
C27_Upgraded ==
    [][(Resolved /\ handle'.found < version') =>
          /\ DOMAIN table' = DOMAIN table
          /\ Quiet =>
                /\ NamesOf(BuiltInIndexes \cup last'.args[2]) \subseteq NamesOf(indexes')
                /\ indexes \subseteq indexes'
                /\ indexes' \ indexes \subseteq BuiltInIndexes \cup last'.args[2]
                /\ table' = table]_vars

\* The rows alone: an init that resolved, whatever its version, indexes
\* and migrate, leaves every key that was stored, and a Quiet one leaves
\* every row as it was.
C27_RowsKept ==
    [][Resolved =>
          /\ DOMAIN table' = DOMAIN table
          /\ Quiet => table' = table]_vars

\* C28: migrate is called once, with the version the database had (0 for
\* a database that did not exist), by an init that finds the database
\* older than the version asked, and is not called by an init that finds
\* it at that version; and an init given a migrate that is called does not
\* resolve in the step that calls it: the handle is "migrating", not
\* "ready", until the promise of migrate has settled.  (An init that the
\* version guard rejects leaves the handle as the init before left it.)
C28_MigrateOnce ==
    [][/\ (last'.op = "upgrade") =>
             /\ version < version'
             /\ handle'.old_version = <<version>>
             /\ handle'.state = "migrating"
       /\ (/\ last'.op = "init"
           /\ handle.state # "migrating"
           /\ last'.error # InvalidVersion) =>
             /\ handle'.old_version = <<>>
             /\ (last'.error = NoError /\ last'.args[3] # Str("")) =>
                   version' = version
       /\ (handle.state = "migrating" /\ handle'.state = "ready") =>
             /\ last'.op = "init"
             /\ Len(handle'.old_version) = 1
       /\ (handle.state # "migrating" /\ version < version'
             /\ last'.args[3] # Str("")) => last'.op = "upgrade"]_vars

\* An init at version 2 with a migrate found the database at version 1,
\* called migrate with old_version 1 and has resolved after it settled.
C28_Witness ==
    /\ handle.state = "ready"
    /\ handle.old_version = <<1>>
    /\ version = 2
    /\ last.op = "init"
    /\ last.args[3] # Str("")

\* The migrate of test/index.ts is settling on a database that was opened
\* at version 1 with bySlug, holds rows, and is being opened at version 2;
\* the callback lists the rows with values(), which gives the rows that
\* have a timestamp, so it updates every row when every row has one.
VoteMigration ==
    /\ handle.state = "migrating"
    /\ handle.migrate = "vote"
    /\ handle.found = 1
    /\ version = 2
    /\ "bySlug" \in NamesOf(indexes)
    /\ Table # NoRows
    /\ \A k \in DOMAIN Table : HasTimestamp(Table[k])

RemovingIndex == handle.state = "migrating" /\ handle.migrate = "remove_index"

\* C30: remove_index(name) inside migrate drops the index when the store
\* has it and does nothing when it has not: either way migrate and init
\* succeed, the upgrade to the new version stands, the other indexes and
\* the rows are as they were.
C30_RemoveIndex ==
    [][RemovingIndex =>
          /\ last'.op = "init"
          /\ last'.error = NoError
          /\ handle'.state = "ready"
          /\ indexes' = {idx \in indexes : idx.name # "bySlug"}
          /\ version' = version
          /\ table' = table]_vars

\* The same for the stores that have the index.
C30_Existing ==
    [][(RemovingIndex /\ "bySlug" \in NamesOf(indexes)) =>
          /\ last'.op = "init"
          /\ last'.error = NoError
          /\ handle'.state = "ready"
          /\ indexes' = {idx \in indexes : idx.name # "bySlug"}
          /\ version' = version
          /\ table' = table]_vars

\* The call that returned was an update of the expiry of a live row.
Renewal ==
    /\ last'.op = "update"
    /\ last'.error = NoError
    /\ Prop(last'.args[3], "expiry") # Undefined

\* C32: update(key, {options: {expiry: t2}}) on a live row leaves the row
\* with the expiry t2, whatever its expiry was; and from then on, as for
\* every stored row, has(key) is true while now is before the expiry the
\* row has and false once now has reached it.
C32_Renewal ==
    [][/\ Renewal => Expiry(table'[last'.args[1]]) = Prop(last'.args[3], "expiry").n
       /\ \A k \in DOMAIN table' :
             has(rm_expired(table', now'), k) = (now' < Expiry(table'[k]))]_vars

\* The same, with the row's presence after the sweep for has(key).
C32_RenewedRow ==
    [][/\ Renewal => Expiry(table'[last'.args[1]]) = Prop(last'.args[3], "expiry").n
       /\ \A k \in DOMAIN table' :
             (k \in DOMAIN rm_expired(table', now')) = (now' < Expiry(table'[k]))]_vars

\* C33: indexes(), on a handle opened on whatever identifier, returns the
\* names of the indexes of the handle's object store without byExpiry and
\* byTimestamp.
C33_Indexes ==
    [][last'.op = "indexes" =>
          /\ last'.error = NoError
          /\ last'.ret = NamesOf(indexes) \ NamesOf(BuiltInIndexes)]_vars

\* The same for the handles opened on the identifier "store".
C33_Store ==
    [][(last'.op = "indexes" /\ handle.identifier = "store") =>
          /\ last'.error = NoError
          /\ last'.ret = NamesOf(indexes) \ NamesOf(BuiltInIndexes)]_vars

\* An init of a handle whose delete() has resolved, with a version that
\* init accepts.
InitAfterDelete ==
    /\ handle.state = "deleted"
    /\ last'.op \in {"init", "upgrade"}
    /\ last'.args[1] = Undefined \/ last'.args[1].n >= 1

\* C34: when delete() has resolved there is no database of the
\* identifier: no version, no object store, no index, no row; and an init
\* after it creates the database anew and succeeds (or is awaiting
\* migrate) with an empty table that has the reserved indexes and those
\* this init declares, and none of the old ones.
C34_Delete ==
    [][/\ last'.op = "delete" =>
             /\ version' = 0
             /\ indexes' = {}
             /\ table' = NoRows
       /\ InitAfterDelete =>
             /\ last'.error = NoError
             /\ handle'.state \in {"ready", "migrating"}
             /\ handle'.found = 0
             /\ version' >= 1
             /\ length(rm_expired(table', now')) = 0
             /\ indexes' = BuiltInIndexes \cup last'.args[2]]_vars

\* delete() has resolved on a handle opened on "mylist": the database is
\* gone and the handle has not been opened again.
C34_Witness ==
    /\ handle.state = "deleted"
    /\ handle.identifier = "mylist"
    /\ last.op = "delete"
    /\ version = 0
    /\ table = NoRows

C40_ReleasedHearsNothing ==
    [][\A h \in (DOMAIN released) \cap DOMAIN released' :
          last_modified'[h] = last_modified[h]]_vars

\* The same for the handles that close() released, under the platform's
\* BroadcastChannel.
C40_Closed ==
    [][\A h \in (DOMAIN released) \cap DOMAIN released' :
          (released[h] = "close" /\ environment = "platform") =>
              last_modified'[h] = last_modified[h]]_vars

\* The calls of get that returned or failed in this step, and those that
\* were made in it.
Finished == (DOMAIN calls) \ DOMAIN calls'
Made == (DOMAIN calls') \ DOMAIN calls

\* get without a middleware: the value of the row at the key.
PlainGet(tbl, key) == IF key \in DOMAIN tbl THEN tbl[key].value ELSE Undefined

\* The key that the middleware of the handle returns for a key.
Rewritten(key) == IF hook = "redirect" THEN MiddlewareKey ELSE key

\* C31: while the middleware of a get runs, the hook is not installed,
\* so the get that the middleware calls reads the row at the key it is
\* given, without the middleware; one get calls the middleware once; and
\* the get then returns the value of the row at the key that the
\* middleware returned, as the table is after what the middleware wrote.
\* Every call of get that is made returns or fails.
C31_HookDisabled ==
    /\ \A c \in CallIds : (c \in DOMAIN calls) ~> (c \notin DOMAIN calls)
    /\ [][/\ \A c \in DOMAIN calls' :
                /\ calls'[c].pc \in {"middleware", "update"} => "get" \notin middlewares'
                /\ calls'[c].applied <= 1
          /\ \A c \in (DOMAIN calls) \cap DOMAIN calls' :
                (calls[c].pc = "middleware" /\ calls'[c].pc # "middleware") =>
                    calls'[c].entry = PlainGet(Table, calls[c].arg)
          /\ \A c \in Finished :
                (calls[c].pc = "read" /\ calls[c].applied = 1) =>
                    /\ last'.error = NoError
                    /\ last'.ret = PlainGet(Table, Rewritten(calls[c].arg))]_vars

\* On a handle with the middleware "dirty", get of the key 0 has returned
\* the value that the middleware's update wrote, and the hook is installed.
C31_Witness ==
    /\ hook = "dirty"
    /\ last.op = "get"
    /\ last.error = NoError
    /\ last.args = <<Num(0)>>
    /\ Prop(last.ret, "slug") = Str("dirty")
    /\ calls = <<>>
    /\ "get" \in middlewares

\* C35: has(key) is true iff a live row is stored under the key, for the
\* key 0 as for the others, and it neither runs nor touches the get
\* middleware.
C35_Has ==
    [][last'.op = "has" =>
          /\ last'.ret = Bool(last'.args[1] \in DOMAIN Table)
          /\ UNCHANGED <<middlewares, calls>>]_vars

\* The same for the keys that are truthy.
C35_Truthy ==
    [][(last'.op = "has" /\ Truthy(last'.args[1])) =>
          /\ last'.ret = Bool(last'.args[1] \in DOMAIN Table)
          /\ UNCHANGED <<middlewares, calls>>]_vars

\* C38: when a call of get has finished, returned or failed, the hook is
\* installed.
C38_HookInstalledAgain ==
    [][Finished # {} => "get" \in middlewares']_vars

\* The same on a handle whose middleware does not fail, when no other
\* call of get is under way.
C38_Returned ==
    [][(Finished # {} /\ hook = "redirect" /\ calls' = <<>>) =>
          "get" \in middlewares']_vars

\* C39: every call of get runs the middleware, also one made while the
\* middleware of another call is under way.
C39_BothHooked ==
    [][\A c \in Made : calls'[c].applied = 1]_vars

\* The same for the calls made while no other call of get is under way,
\* on a handle whose middleware does not fail.
C39_Alone ==
    [][\A c \in Made : (calls = <<>> /\ hook = "redirect") => calls'[c].applied = 1]_vars

====
